---- MODULE Spec2Model ----
(***************************************************************************)
(* Model of the transform/quality engine of the e-commerce ETL pipeline    *)
(* (src/transform.py) and of the transform task that drives it             *)
(* (src/dags/etl_pipeline.py, run_transform).                               *)
(*                                                                         *)
(* The stages are functions over a batch (a pandas DataFrame).  A batch is *)
(* a record with its column names and its rows, a row a function from      *)
(* column name to cell.  Every stage is an operator, computed as the code   *)
(* computes it; each has a specification whose Init draws the caller's      *)
(* batch and arguments from bounded sets and whose action is the call.      *)
(*                                                                         *)
(* Numbers are exact rationals: binary floating-point rounding is not      *)
(* modelled.  pandas is modelled at the behaviour of the 2.x line, in which *)
(* fillna(method=...) is still accepted.                                    *)
(***************************************************************************)
EXTENDS Integers, Sequences, FiniteSets, TLC

VARIABLES
    pc,     \* position of the call: the function about to run, or "returned"/"raised"
    df,     \* the caller's batch (never assigned by a stage: each works on a copy)
    args,   \* the other arguments of the call, and the outcomes of its collaborators
    out     \* what the call returned

vars == <<pc, df, args, out>>

(***************************************************************************)
(* Bounds of the model.                                                    *)
(***************************************************************************)
MaxRows == 3        \* rows of a batch handed to a cleaning or metric stage
MaxCurrencyRows == 2    \* rows of a batch handed to normalize_currency
MaxQualityRows == 2     \* rows of a batch handed to flag_fraud or validate_orders
MaxFiles == 2           \* entries of the staging directory
MaxRuns == 2            \* scheduled runs of the DAG
MaxLoadRows == 2        \* records of a list handed to the loader
MaxRetries == 2         \* largest max_retries a wrapper is configured with
MaxCalls == 6           \* calls of the wrapped function the model follows
MaxMergeRows == 2       \* rows of a batch handed to merge_metadata

(***************************************************************************)
(* Cells.  NA is the null pandas itself puts in a column (NaN, NaT), PyNone *)
(* a Python None kept as it is in an object column.  Both are null to       *)
(* pd.isna; they differ in truth value: bool(NaN) is True, bool(None) False.*)
(***************************************************************************)
NA == [k |-> "na"]
PyNone == [k |-> "none"]
Num(n, d) == [k |-> "num", n |-> n, d |-> d]
Str(s) == [k |-> "str", s |-> s]
Ts(t) == [k |-> "ts", t |-> t]
Bool(v) == [k |-> "bool", v |-> v]
List(l) == [k |-> "list", l |-> l]

isna(c) == c \in {NA, PyNone}
IsNum(c) == c.k = "num"
IsStr(c) == c.k = "str"

None == [some |-> FALSE]
Some(v) == [some |-> TRUE, v |-> v]

NoResult == [raised |-> FALSE, pending |-> TRUE]
Raised(e) == [raised |-> TRUE, pending |-> FALSE, exc |-> e]

(***************************************************************************)
(* Exact rational arithmetic on "num" cells (n/d, d > 0, lowest terms).     *)
(***************************************************************************)
Abs(x) == IF x < 0 THEN -x ELSE x

RECURSIVE Gcd(_, _)
Gcd(a, b) == IF b = 0 THEN a ELSE Gcd(b, a % b)

Rat(n, d) ==
    LET g == Gcd(Abs(n), Abs(d))
        s == IF d < 0 THEN -1 ELSE 1
    IN  Num((s * n) \div g, (s * d) \div g)

Whole(n) == Num(n, 1)
RAdd(x, y) == Rat(x.n * y.d + y.n * x.d, x.d * y.d)
RSub(x, y) == Rat(x.n * y.d - y.n * x.d, x.d * y.d)
RMul(x, y) == Rat(x.n * y.n, x.d * y.d)
RDivInt(x, m) == Rat(x.n, x.d * m)
RLess(x, y) == x.n * y.d < y.n * x.d

(***************************************************************************)
(* Sequence helpers.                                                       *)
(***************************************************************************)
Range(s) == {s[i] : i \in DOMAIN s}

RECURSIVE SeqsUpTo(_, _)
SeqsUpTo(S, n) ==
    IF n = 0 THEN {<<>>}
    ELSE LET shorter == SeqsUpTo(S, n - 1)
         IN  shorter \cup {Append(s, x) : s \in {t \in shorter : Len(t) = n - 1}, x \in S}

\* The increasing sequence of the members of a set of row positions.
RECURSIVE Ascending(_)
Ascending(I) ==
    IF I = {} THEN <<>>
    ELSE LET m == CHOOSE x \in I : \A y \in I : x <= y
         IN  <<m>> \o Ascending(I \ {m})

NRows(b) == Len(b.rows)
Column(b, c) == [i \in 1..NRows(b) |-> b.rows[i][c]]

(***************************************************************************)
(* remove_duplicates  (src/transform.py 29-44)                              *)
(***************************************************************************)
KeepPolicies == {"first", "last", "False"}

\* Two rows agree on the key columns.  pandas factorizes each column, and a
\* null is one label: nulls are equal to each other.
SameKeyStrictNull(b, cols, i, j) ==
    \A c \in cols : b.rows[i][c] = b.rows[j][c] /\ ~isna(b.rows[i][c])

SameKey(b, cols, i, j) ==
    \A c \in cols : b.rows[i][c] = b.rows[j][c]

\* DataFrame.duplicated: the mask of the rows drop_duplicates removes.
duplicatedSwapped(b, cols, keep, i) ==
    CASE keep = "first" -> \E j \in 1..NRows(b) : j > i /\ SameKey(b, cols, i, j)
      [] keep = "last"  -> \E j \in 1..NRows(b) : j < i /\ SameKey(b, cols, i, j)
      [] OTHER          -> \E j \in 1..NRows(b) : j # i /\ SameKey(b, cols, i, j)

duplicated(b, cols, keep, i) ==
    CASE keep = "first" -> \E j \in 1..NRows(b) : j < i /\ SameKey(b, cols, i, j)
      [] keep = "last"  -> \E j \in 1..NRows(b) : j > i /\ SameKey(b, cols, i, j)
      [] OTHER          -> \E j \in 1..NRows(b) : j # i /\ SameKey(b, cols, i, j)

\* df.drop_duplicates(subset, keep): the surviving index labels, in input order.
drop_duplicates(b, subset, keep) ==
    LET cols == IF subset.some THEN subset.v ELSE b.columns
    IN  Ascending({i \in 1..NRows(b) : ~duplicated(b, cols, keep, i)})

removedCountGroups(before, cleanedLen) == IF before = cleanedLen THEN 0 ELSE 1

removedCount(before, cleanedLen) == before - cleanedLen

\* index: the labels of cleaned before reset_index(drop=True) renumbers them.
remove_duplicates(b, subset, keep) ==
    LET before == NRows(b)
        index == drop_duplicates(b, subset, keep)
        cleaned == [columns |-> b.columns,
                    rows |-> [n \in 1..Len(index) |-> b.rows[index[n]]]]
        removed == removedCount(before, NRows(cleaned))
    IN  [raised |-> FALSE, pending |-> FALSE,
         cleaned |-> cleaned, removed |-> removed, index |-> index]

DedupColumns == {"a", "b"}
DedupRow == [a : {NA, Whole(1), Whole(2)}, b : {Str(<<"x">>), Str(<<"y">>)}]
DedupBatches(n) == {[columns |-> DedupColumns, rows |-> rs] : rs \in SeqsUpTo(DedupRow, n)}
DedupSubsets == {None} \cup {Some(S) : S \in (SUBSET DedupColumns) \ {{}}}

InitDedup ==
    /\ pc = "remove_duplicates"
    /\ df \in DedupBatches(MaxRows)
    /\ args \in [fn : {"remove_duplicates"}, subset : DedupSubsets, keep : KeepPolicies]
    /\ out = NoResult

CallRemoveDuplicates ==
    /\ pc = "remove_duplicates"
    /\ out' = remove_duplicates(df, args.subset, args.keep)
    /\ pc' = "returned"
    /\ UNCHANGED <<df, args>>

NextDedup == CallRemoveDuplicates

SpecDedup == InitDedup /\ [][NextDedup]_vars

Returned == pc = "returned"
DedupKey == IF args.subset.some THEN args.subset.v ELSE df.columns
EqualOnKey(i, j) == \A c \in DedupKey : df.rows[i][c] = df.rows[j][c]
DedupGroup(i) == {j \in 1..NRows(df) : EqualOnKey(i, j)}
HasDuplicates == \E i, j \in 1..NRows(df) : i # j /\ EqualOnKey(i, j)
MinOf(S) == CHOOSE x \in S : \A y \in S : x <= y
MaxOf(S) == CHOOSE x \in S : \A y \in S : x >= y

\* C1: remove_duplicates conserves rows: the rows of the returned batch plus
\* the returned removed count equal the rows of the input batch, for every
\* batch, key subset and keep policy.
C1_DedupConservesRows ==
    Returned => NRows(out.cleaned) + out.removed = NRows(df)

C1_Witness ==
    /\ Returned
    /\ args.keep = "False"
    /\ out.removed = 2
    /\ NRows(out.cleaned) = 1

\* C2: removed = 0 if and only if no two rows of the input batch are equal
\* on the subset keys (all columns when no subset is given).
C2_RemovedZeroIffNoDuplicates ==
    Returned => (out.removed = 0 <=> ~HasDuplicates)

C2_Witness ==
    /\ Returned
    /\ args.subset = Some({"a"})
    /\ out.removed = 1
    /\ \E i, j \in 1..NRows(df) : i # j /\ isna(df.rows[i]["a"]) /\ isna(df.rows[j]["a"])

\* C3: from each group of rows equal on the subset keys, keep=first keeps
\* exactly the first row, keep=last exactly the last and keep=False none; the
\* survivors keep their relative input order.
C3_KeepPolicy ==
    Returned =>
        /\ \A n \in 1..(Len(out.index) - 1) : out.index[n] < out.index[n + 1]
        /\ \A n \in 1..Len(out.index) : out.cleaned.rows[n] = df.rows[out.index[n]]
        /\ Len(out.index) = NRows(out.cleaned)
        /\ \A i \in 1..NRows(df) :
            LET kept == i \in Range(out.index)
            IN  CASE args.keep = "first" -> kept <=> i = MinOf(DedupGroup(i))
                  [] args.keep = "last"  -> kept <=> i = MaxOf(DedupGroup(i))
                  [] OTHER               -> kept <=> Cardinality(DedupGroup(i)) = 1

C3_Witness ==
    /\ Returned
    /\ args.keep = "last"
    /\ NRows(df) = 3
    /\ EqualOnKey(1, 2)
    /\ out.index = <<2, 3>>

(***************************************************************************)
(* impute_missing  (src/transform.py 47-124)                                *)
(***************************************************************************)
NumericStrategies == {"median", "mean", "zero", "ffill", "bfill"}
CategoricalStrategies == {"mode", "unknown", "ffill", "bfill"}
DatetimeStrategies == {"ffill", "bfill", "epoch"}

SampleSize == 20        \* head(20) of the non-null values
SampleDivisor == 4      \* a quarter of the sample must look like a datetime

EmptyText == Str(<<>>)
Unknown == Str(<<"<", "u", "n", "k", "n", "o", "w", "n", ">">>)
Date1 == <<"2", "0", "2", "0", "-", "0", "1", "-", "0", "1">>
Date2 == <<"2", "0", "2", "0", "-", "0", "2", "-", "0", "1">>
Epoch == Ts(0)

\* pd.to_datetime(text, errors="coerce") on one cell: the day number of a
\* recognised date text, NaT for any other text.
to_datetime_cell(c) ==
    CASE c.k = "ts" -> c
      [] c.k = "str" /\ c.s = Date1 -> Ts(18262)
      [] c.k = "str" /\ c.s = Date2 -> Ts(18293)
      [] OTHER -> NA

to_datetime(col) == [i \in DOMAIN col |-> to_datetime_cell(col[i])]

\* Series.dropna(): the non-null cells, in order.
dropna(col) == SelectSeq(col, LAMBDA c : ~isna(c))

head(col, n) == IF Len(col) <= n THEN col ELSE SubSeq(col, 1, n)

Max2(a, b) == IF a >= b THEN a ELSE b

DatetimeMarks == {"-", ":", "T"}

_looks_like_datetime_series(col) ==
    LET sample == head(dropna(col), SampleSize)
        n_matches == Cardinality({i \in DOMAIN sample :
                        sample[i].k = "str" /\ \E j \in DOMAIN sample[i].s :
                                                    sample[i].s[j] \in DatetimeMarks})
    IN  IF Len(sample) = 0 THEN FALSE
        ELSE n_matches >= Max2(1, Len(sample) \div SampleDivisor)

\* pick the position of a least element, under less, of a non-empty sequence
LeastPos(col, less(_, _)) ==
    CHOOSE i \in DOMAIN col :
        /\ \A j \in DOMAIN col : ~less(col[j], col[i])
        /\ \A j \in 1..(i - 1) : less(col[i], col[j])

RemoveAt(col, i) == SubSeq(col, 1, i - 1) \o SubSeq(col, i + 1, Len(col))

RECURSIVE SortNums(_)
SortNums(col) ==
    IF Len(col) = 0 THEN <<>>
    ELSE LET i == LeastPos(col, RLess)
         IN  <<col[i]>> \o SortNums(RemoveAt(col, i))

RECURSIVE SumNums(_)
SumNums(col) == IF Len(col) = 0 THEN Whole(0) ELSE RAdd(col[1], SumNums(Tail(col)))

\* Series.median(): the middle of the sorted non-null values, NaN when none.
median(col) ==
    LET v == SortNums(dropna(col))
        n == Len(v)
    IN  IF n = 0 THEN NA
        ELSE IF n % 2 = 1 THEN v[(n + 1) \div 2]
        ELSE RDivInt(RAdd(v[n \div 2], v[n \div 2 + 1]), 2)

\* Series.mean(): NaN when there is no non-null value.
mean(col) ==
    LET v == dropna(col)
    IN  IF Len(v) = 0 THEN NA ELSE RDivInt(SumNums(v), Len(v))

\* Code points of the characters that occur in the categorical texts.
CharOrder == <<"-", "0", "1", "2", "<", ">", "a", "b", "k", "n", "o", "u", "w", "x", "y">>
Ord(c) == CHOOSE i \in DOMAIN CharOrder : CharOrder[i] = c

RECURSIVE TextLess(_, _)
TextLess(a, b) ==
    IF Len(b) = 0 THEN FALSE
    ELSE IF Len(a) = 0 THEN TRUE
    ELSE IF a[1] # b[1] THEN Ord(a[1]) < Ord(b[1])
    ELSE TextLess(Tail(a), Tail(b))

Count(col, v) == Cardinality({i \in DOMAIN col : col[i] = v})

\* Series.mode(dropna=True): the most frequent values, sorted.
mode(col) ==
    LET v == dropna(col)
        best == {x \in Range(v) : \A y \in Range(v) : Count(v, x) >= Count(v, y)}
        least(S) == CHOOSE x \in S : \A y \in S \ {x} : TextLess(x.s, y.s)
        ordered[S \in SUBSET best] ==
            IF S = {} THEN <<>> ELSE <<least(S)>> \o ordered[S \ {least(S)}]
    IN  ordered[best]

fillna(col, val) == [i \in DOMAIN col |-> IF isna(col[i]) THEN val ELSE col[i]]

\* forward fill that carries a value over one null only (fillna(limit=1))
ffillLimitOne(col) ==
    [i \in DOMAIN col |->
        IF ~isna(col[i]) \/ i = 1 THEN col[i] ELSE col[i - 1]]

\* fillna(method="ffill"): each null takes the last non-null before it.
ffill(col) ==
    LET f[i \in 0..Len(col)] ==
            IF i = 0 THEN NA
            ELSE IF ~isna(col[i]) THEN col[i] ELSE f[i - 1]
    IN  [i \in DOMAIN col |-> f[i]]

\* fillna(method="bfill"): each null takes the first non-null after it.
bfill(col) ==
    LET f[i \in 1..(Len(col) + 1)] ==
            IF i = Len(col) + 1 THEN NA
            ELSE IF ~isna(col[i]) THEN col[i] ELSE f[i + 1]
    IN  [i \in DOMAIN col |-> f[i]]

fillna_method(col, method) == IF method = "ffill" THEN ffill(col) ELSE bfill(col)

\* lines 81-82 left out: a null fill value is used as it is
keepNullFill(val) == val

\* if pd.isna(val): val = 0
degradeNull(val) == IF isna(val) THEN Whole(0) ELSE val

\* the value the numeric strategy computes from the column (lines 70-80)
numericFill(col, strategy) ==
    CASE strategy = "median" -> median(col)
      [] strategy = "mean"   -> mean(col)
      [] OTHER               -> Whole(0)

imputeNumeric(col, strategy) ==
    IF strategy \in {"ffill", "bfill"} THEN fillna_method(col, strategy)
    ELSE fillna(col, degradeNull(numericFill(col, strategy)))

imputeDatetime(col, strategy) ==
    LET parsed == to_datetime(col)
    IN  CASE strategy \in {"ffill", "bfill"} -> fillna_method(parsed, strategy)
          [] strategy = "epoch"              -> fillna(parsed, Epoch)
          [] OTHER                           -> parsed

\* mode_val.iloc[0] if len(mode_val) > 0 else ""
categoricalFill(col) ==
    LET mode_val == mode(col)
    IN  IF Len(mode_val) > 0 THEN mode_val[1] ELSE EmptyText

imputeCategorical(col, strategy) ==
    CASE strategy = "mode"               -> fillna(col, categoricalFill(col))
      [] strategy = "unknown"            -> fillna(col, Unknown)
      [] strategy \in {"ffill", "bfill"} -> fillna_method(col, strategy)
      [] OTHER                           -> fillna(col, EmptyText)

\* which branch of the loop body a column takes (lines 69, 85, 99)
ColumnKind(col, dtype) ==
    IF dtype = "float64" THEN "numeric"
    ELSE IF dtype = "datetime64" \/ (dtype = "object" /\ _looks_like_datetime_series(col))
         THEN "datetime"
    ELSE "categorical"

imputeColumn(col, dtype, a) ==
    CASE ColumnKind(col, dtype) = "numeric"  -> imputeNumeric(col, a.numeric_strategy)
      [] ColumnKind(col, dtype) = "datetime" -> imputeDatetime(col, a.datetime_strategy)
      [] OTHER                               -> imputeCategorical(col, a.categorical_strategy)

impute_missing(b, a) ==
    LET given == IF a.fill_values.some THEN DOMAIN a.fill_values.v ELSE {}
        new == [c \in b.columns |->
                   IF c \in given THEN fillna(Column(b, c), a.fill_values.v[c])
                   ELSE imputeColumn(Column(b, c), b.dtypes[c], a)]
    IN  [raised |-> FALSE, pending |-> FALSE,
         value |-> [columns |-> b.columns, dtypes |-> b.dtypes,
                    rows |-> [i \in 1..NRows(b) |-> [c \in b.columns |-> new[c][i]]]]]

ImputeCellsOf(dtype) ==
    CASE dtype = "float64"    -> {NA, Whole(1), Whole(3)}
      [] dtype = "datetime64" -> {NA, Ts(18262), Ts(18293)}
      [] OTHER                -> {NA, Str(<<"a">>), Str(<<"b">>), Str(Date1), Str(<<"x", "-", "y">>)}

ImputeBatches(n) ==
    UNION {{[columns |-> {"c"}, dtypes |-> [c \in {"c"} |-> dtype],
             rows |-> [i \in DOMAIN cells |-> [c \in {"c"} |-> cells[i]]]] :
                cells \in SeqsUpTo(ImputeCellsOf(dtype), n)} :
           dtype \in {"float64", "datetime64", "object"}}

InitImpute ==
    /\ pc = "impute_missing"
    /\ df \in ImputeBatches(MaxRows)
    /\ args \in [fn : {"impute_missing"},
                 numeric_strategy : NumericStrategies,
                 categorical_strategy : CategoricalStrategies,
                 datetime_strategy : DatetimeStrategies,
                 fill_values : {None, Some([c \in {"c"} |-> Whole(9)])}]
    /\ out = NoResult

CallImputeMissing ==
    /\ pc = "impute_missing"
    /\ out' = impute_missing(df, args)
    /\ pc' = "returned"
    /\ UNCHANGED <<df, args>>

NextImpute == CallImputeMissing

SpecImpute == InitImpute /\ [][NextImpute]_vars

Overridden(c) == args.fill_values.some /\ c \in DOMAIN args.fill_values.v
KindOf(c) == ColumnKind(Column(df, c), df.dtypes[c])
AppliedStrategy(c) ==
    CASE KindOf(c) = "numeric"  -> args.numeric_strategy
      [] KindOf(c) = "datetime" -> args.datetime_strategy
      [] OTHER                  -> args.categorical_strategy
HadNonNull(c) == \E i \in 1..NRows(df) : ~isna(df.rows[i][c])
AllNull(c) == NRows(df) > 0 /\ \A i \in 1..NRows(df) : isna(df.rows[i][c])
\* a cell a fill can copy: non-null and, in a date-like column, a readable date
Usable(c, j) ==
    /\ ~isna(df.rows[j][c])
    /\ KindOf(c) = "datetime" => ~isna(to_datetime_cell(df.rows[j][c]))

\* C4 as stated: after impute_missing, a column that had at least one
\* non-null value in the input contains no null value in the output, for
\* every combination of strategies, forward-fill and back-fill included.
C4_NoNullRemains ==
    Returned =>
        \A c \in df.columns : HadNonNull(c) =>
            \A i \in 1..NRows(df) : ~isna(out.value.rows[i][c])

\* C4 amended: in a column that had at least one non-null value, an output
\* cell is null exactly when no explicit fill value is given for the column
\* and its strategy is forward-fill with no usable value at or before the
\* cell, or back-fill with no usable value at or after it.
C4_NullOnlyWhereFillHasNoSource ==
    Returned =>
        \A c \in df.columns : HadNonNull(c) =>
            \A i \in 1..NRows(df) :
                isna(out.value.rows[i][c]) <=>
                    /\ ~Overridden(c)
                    /\ \/ AppliedStrategy(c) = "ffill" /\ \A j \in 1..i : ~Usable(c, j)
                       \/ AppliedStrategy(c) = "bfill" /\ \A j \in i..NRows(df) : ~Usable(c, j)

C4_Witness ==
    /\ Returned
    /\ df.dtypes["c"] = "float64"
    /\ args.numeric_strategy = "ffill"
    /\ ~Overridden("c")
    /\ NRows(df) = 3
    /\ isna(df.rows[1]["c"]) /\ ~isna(df.rows[2]["c"]) /\ isna(df.rows[3]["c"])
    /\ isna(out.value.rows[1]["c"])
    /\ out.value.rows[3]["c"] = df.rows[2]["c"]

\* the strategy computes the fill value from the column's own values
ComputesFill(c) ==
    \/ KindOf(c) = "numeric" /\ args.numeric_strategy \in {"median", "mean"}
    \/ KindOf(c) = "categorical" /\ args.categorical_strategy = "mode"

Digits == <<"0", "1", "2", "3", "4", "5", "6", "7", "8", "9">>
IsDigit(c) == c \in Range(Digits)
DigitVal(c) == (CHOOSE i \in DOMAIN Digits : Digits[i] = c) - 1
Whitespace == {" "}

\* a character class that lost the minus sign: [^0-9\.]
KeptByRegexNoMinus(c) == IsDigit(c) \/ c = "."

\* _CURRENCY_RE = [^0-9\.-] matches every character this does not hold of
KeptByRegex(c) == IsDigit(c) \/ c \in {".", "-"}

\* _CURRENCY_RE.sub("", s)
currency_re_sub(s) == SelectSeq(s, KeptByRegex)

\* str.strip()
RECURSIVE lstrip(_)
lstrip(s) == IF Len(s) > 0 /\ s[1] \in Whitespace THEN lstrip(Tail(s)) ELSE s
RECURSIVE rstrip(_)
rstrip(s) == IF Len(s) > 0 /\ s[Len(s)] \in Whitespace THEN rstrip(SubSeq(s, 1, Len(s) - 1)) ELSE s
strip(s) == rstrip(lstrip(s))

RECURSIVE DigitsValue(_)
DigitsValue(s) == IF Len(s) = 0 THEN 0 ELSE 10 * DigitsValue(SubSeq(s, 1, Len(s) - 1)) + DigitVal(s[Len(s)])

RECURSIVE Pow10(_)
Pow10(n) == IF n = 0 THEN 1 ELSE 10 * Pow10(n - 1)

\* float(s) on a text of digits, points and minus signs (what the regex
\* leaves): an optional leading minus, then digits with at most one point and
\* at least one digit; anything else raises ValueError, here NA.
float(s) ==
    LET neg == Len(s) > 0 /\ s[1] = "-"
        mag == IF neg THEN Tail(s) ELSE s
        points == {i \in DOMAIN mag : mag[i] = "."}
        ok == /\ \A i \in DOMAIN mag : IsDigit(mag[i]) \/ mag[i] = "."
              /\ Cardinality(points) <= 1
              /\ \E i \in DOMAIN mag : IsDigit(mag[i])
        decimals == IF points = {} THEN 0 ELSE Len(mag) - (CHOOSE i \in points : TRUE)
        whole == DigitsValue(SelectSeq(mag, IsDigit))
    IN  IF ok THEN Rat(IF neg THEN -whole ELSE whole, Pow10(decimals)) ELSE NA

_parse_amount(v) ==
    IF isna(v) THEN NA
    ELSE IF IsNum(v) THEN v
    ELSE LET s == currency_re_sub(strip(v.s))
         IN  IF s = <<>> THEN NA ELSE float(s)

USD == Str(<<"U", "S", "D">>)
EUR == Str(<<"E", "U", "R">>)
NoRates == [c \in {} |-> NA]
One == Whole(1)

\* rate_map.get(cur, 1.0)
rate_get(rate_map, cur) == IF cur \in DOMAIN rate_map THEN rate_map[cur] ELSE One

\* What requests.get(...) and resp.json() can do.  raises: the request itself
\* failed; json: "invalid" (resp.json() raises), "no_rates" (an object without
\* "rates"), "bad_rates" (rates that is no mapping of numbers: the
\* comprehension raises), "rates" (a mapping code -> rate, rate 0 allowed).
Responses ==
    {[raises |-> TRUE,  status_code |-> 0,   json |-> "none",      rates |-> NoRates],
     [raises |-> FALSE, status_code |-> 500, json |-> "none",      rates |-> NoRates],
     [raises |-> FALSE, status_code |-> 200, json |-> "invalid",   rates |-> NoRates],
     [raises |-> FALSE, status_code |-> 200, json |-> "no_rates",  rates |-> NoRates],
     [raises |-> FALSE, status_code |-> 200, json |-> "bad_rates", rates |-> NoRates],
     [raises |-> FALSE, status_code |-> 200, json |-> "rates",
      rates |-> (EUR :> Rat(1, 2)) @@ (USD :> One)],
     [raises |-> FALSE, status_code |-> 200, json |-> "rates",
      rates |-> (EUR :> Whole(0))]}

NoResponse == [raises |-> FALSE, status_code |-> 0, json |-> "none", rates |-> NoRates]

\* lines 172-178: the body of a 200 response turned into a rate map; raises on
\* a body that is no JSON, or whose rates are no mapping of numbers
rates_of_body(resp, target) ==
    IF resp.json \in {"invalid", "bad_rates"} THEN [raised |-> TRUE, rate_map |-> NoRates]
    ELSE LET rates == IF resp.json = "no_rates" THEN NoRates ELSE resp.rates
             inverted == [cur \in DOMAIN rates |->
                             IF rates[cur] # Whole(0)
                             THEN Rat(rates[cur].d, rates[cur].n) ELSE One]
         IN  [raised |-> FALSE,
              rate_map |-> [cur \in DOMAIN inverted \cup {target} |->
                               IF cur = target THEN One ELSE inverted[cur]]]

\* the fetch without its try/except: what is raised inside reaches the caller
fetch_rates_unguarded(resp, target) ==
    IF resp.raises THEN [raised |-> TRUE, rate_map |-> NoRates]
    ELSE IF resp.status_code # 200 THEN [raised |-> FALSE, rate_map |-> NoRates]
    ELSE rates_of_body(resp, target)

\* lines 168-181: the rate map after the attempt; whatever is raised inside
\* the try is caught and leaves the map as it was, empty
fetch_rates(resp, target) ==
    IF resp.raises THEN [raised |-> FALSE, rate_map |-> NoRates]
    ELSE IF resp.status_code # 200 THEN [raised |-> FALSE, rate_map |-> NoRates]
    ELSE IF rates_of_body(resp, target).raised THEN [raised |-> FALSE, rate_map |-> NoRates]
    ELSE rates_of_body(resp, target)

\* lines 201-208
_to_target(row, amount_col, currency_col, rate_map) ==
    LET a == _parse_amount(row[amount_col])
    IN  IF isna(a) THEN NA ELSE RMul(a, rate_get(rate_map, row[currency_col]))

\* a column name that would overwrite the amounts where they stand
normalized_in_place(amount_col) == amount_col

\* line 211: amount_col + "_normalized"
normalized_column(amount_col) == amount_col \o "_normalized"

normalize_currency(b, a, resp) ==
    LET given == IF a.rate_map.some THEN a.rate_map.v ELSE NoRates
        has_currency == a.currency_col.some /\ a.currency_col.v \in b.columns
        fetches == DOMAIN given = {} /\ has_currency
        fetched == fetch_rates(resp, a.target_currency)
        rate_map == IF fetches /\ ~fetched.raised THEN fetched.rate_map ELSE given
        out_col == normalized_column(a.amount_col)
        normalized(row) ==
            IF has_currency THEN _to_target(row, a.amount_col, a.currency_col.v, rate_map)
            ELSE _parse_amount(row[a.amount_col])
    IN  IF fetches /\ fetched.raised
        THEN [raised |-> TRUE, pending |-> FALSE, exc |-> "fetch",
              fetched |-> TRUE, response |-> resp]
        ELSE [raised |-> FALSE, pending |-> FALSE,
              fetched |-> fetches,
              response |-> IF fetches THEN resp ELSE NoResponse,
              rate_map |-> rate_map,
              value |-> [b EXCEPT
                            !.columns = b.columns \cup {out_col},
                            !.rows = [i \in 1..NRows(b) |->
                                        [c \in b.columns \cup {out_col} |->
                                            IF c = out_col THEN normalized(b.rows[i])
                                            ELSE b.rows[i][c]]]]]

AmountCells ==
    {NA, Whole(5),
     Str(<<"$", "1", "0", ".", "0", "0">>),
     Str(<<"E", "2", "0", ".", "0", "0">>),
     Str(<<"-", "3">>),
     Str(<<" ", ".", "5", " ">>),
     Str(<<"a", "b", "c">>),
     Str(<<"1", ".", "2", ".", "3">>),
     Str(<<"1", "e", "5">>)}
CurrencyCells == {NA, USD, EUR}

CurrencyRows(cols) ==
    IF "currency" \in cols THEN [amount : AmountCells, currency : CurrencyCells]
    ELSE [amount : AmountCells]

\* batches of at least one row, with and without the currency column
CurrencyBatches(n) ==
    UNION {{[columns |-> cols, rows |-> rs] :
                rs \in SeqsUpTo(CurrencyRows(cols), n) \ {<<>>}} :
           cols \in {{"amount"}, {"amount", "currency"}}}

InitCurrency ==
    /\ pc = "normalize_currency"
    /\ df \in CurrencyBatches(MaxCurrencyRows)
    /\ args \in [fn : {"normalize_currency"},
                 amount_col : {"amount"},
                 currency_col : {None, Some("currency")},
                 rate_map : {None, Some(NoRates), Some(EUR :> Rat(11, 10))},
                 target_currency : {USD}]
    /\ out = NoResult

CallNormalizeCurrency ==
    /\ pc = "normalize_currency"
    /\ \E resp \in Responses :
        /\ out' = normalize_currency(df, args, resp)
        /\ pc' = IF out'.raised THEN "raised" ELSE "returned"
    /\ UNCHANGED <<df, args>>

NextCurrency == CallNormalizeCurrency

SpecCurrency == InitCurrency /\ [][NextCurrency]_vars

NumberCharacters == {"0", "1", "2", "3", "4", "5", "6", "7", "8", "9", ".", "-"}
\* the cell with every character outside [0-9.-] removed, read as a number
ParsedAmount(cell) ==
    IF isna(cell) THEN NA
    ELSE IF IsNum(cell) THEN cell
    ELSE float(SelectSeq(cell.s, LAMBDA ch : ch \in NumberCharacters))
CurrencyGiven == args.currency_col.some /\ args.currency_col.v \in df.columns
RateMapGiven == args.rate_map.some /\ DOMAIN args.rate_map.v # {}
Normalized(i) == out.value.rows[i]["amount_normalized"]

\* C6: normalize_currency writes, for every row, amount_normalized = parsed
\* amount times rate_map.get(row currency, 1.0) when the batch has the given
\* currency column, and the parsed amount unchanged otherwise; a cell that
\* cannot be parsed yields null, never an error.
C6_NormalizedAmount ==
    /\ pc # "raised"
    /\ Returned =>
        /\ RateMapGiven => out.rate_map = args.rate_map.v
        /\ \A i \in 1..NRows(df) :
            LET p == ParsedAmount(df.rows[i]["amount"])
                cur == df.rows[i]["currency"]
            IN  Normalized(i) =
                    IF isna(p) THEN NA
                    ELSE IF ~CurrencyGiven THEN p
                    ELSE IF cur \in DOMAIN out.rate_map THEN RMul(p, out.rate_map[cur])
                    ELSE p

C6_Witness ==
    /\ Returned
    /\ RateMapGiven
    /\ CurrencyGiven
    /\ NRows(df) = 2
    /\ df.rows[1]["amount"] = Str(<<"E", "2", "0", ".", "0", "0">>)
    /\ df.rows[1]["currency"] = EUR
    /\ Normalized(1) = Whole(22)
    /\ df.rows[2]["amount"] = Str(<<"-", "3">>)
    /\ df.rows[2]["currency"] = NA
    /\ Normalized(2) = Whole(-3)

FetchFailed(r) == r.raises \/ r.status_code # 200 \/ r.json \in {"invalid", "no_rates", "bad_rates"}

to_numeric_cell(c) ==
    IF isna(c) THEN NA
    ELSE IF IsNum(c) THEN c
    ELSE IF IsStr(c) THEN float(strip(c.s))
    ELSE NA

\* pd.to_numeric(df.get(col, default), errors="coerce").fillna(fill).
\* df.get returns the scalar default when the column is absent, to_numeric
\* returns a scalar number unchanged, and a number has no fillna: the
\* attribute lookup raises AttributeError.
numeric_column_or(b, col, fill) ==
    IF col \in b.columns
    THEN [raised |-> FALSE,
          v |-> fillna([i \in 1..NRows(b) |-> to_numeric_cell(b.rows[i][col])], fill)]
    ELSE [raised |-> TRUE, v |-> <<>>]

\* lines 249-257: an adjustment column, used when named and in the batch
adjustment(b, col) ==
    IF col.some /\ col.v \in b.columns
    THEN fillna([i \in 1..NRows(b) |-> to_numeric_cell(b.rows[i][col.v])], Whole(0))
    ELSE [i \in 1..NRows(b) |-> Whole(0)]

calculate_order_total(b, a) ==
    LET price == numeric_column_or(b, a.price_col, Whole(0))
        qty == numeric_column_or(b, a.qty_col, Whole(1))
        disc == adjustment(b, a.discount_col)
        tax == adjustment(b, a.tax_col)
        ship == adjustment(b, a.shipping_col)
        total == [i \in 1..NRows(b) |->
                    RAdd(RAdd(RSub(RMul(price.v[i], qty.v[i]), disc[i]), tax[i]), ship[i])]
        cols == b.columns \cup {a.out_col}
    IN  IF price.raised \/ qty.raised
        THEN Raised("AttributeError")
        ELSE [raised |-> FALSE, pending |-> FALSE,
              value |-> [b EXCEPT
                            !.columns = cols,
                            !.rows = [i \in 1..NRows(b) |->
                                        [c \in cols |-> IF c = a.out_col THEN total[i]
                                                        ELSE b.rows[i][c]]]]]

TotalColumns == {"price", "quantity", "discount", "tax", "shipping"}
TotalCellsOf(c) ==
    CASE c = "price"    -> {NA, Whole(10), Str(<<"a", "b", "c">>)}
      [] c = "quantity" -> {NA, Whole(2), Str(<<"3">>)}
      [] c = "discount" -> {Whole(1)}
      [] c = "tax"      -> {Whole(2), Str(<<"a", "b", "c">>)}
      [] OTHER          -> {Rat(7, 2)}

\* the rows over a set of columns, each cell drawn from its column's cells
RECURSIVE TotalRows(_)
TotalRows(cols) ==
    IF cols = {} THEN {<<>>}
    ELSE LET c == CHOOSE x \in cols : TRUE
         IN  {r @@ (c :> v) : r \in TotalRows(cols \ {c}), v \in TotalCellsOf(c)}

TotalBatches(n) ==
    UNION {{[columns |-> cols, rows |-> rs] : rs \in SeqsUpTo(TotalRows(cols), n)} :
           cols \in SUBSET TotalColumns}

InitTotal ==
    /\ pc = "calculate_order_total"
    /\ df \in TotalBatches(MaxCurrencyRows)
    /\ args \in [fn : {"calculate_order_total"},
                 price_col : {"price"}, qty_col : {"quantity"},
                 discount_col : {None, Some("discount")},
                 tax_col : {None, Some("tax")},
                 shipping_col : {None, Some("shipping")},
                 out_col : {"order_total"}]
    /\ out = NoResult

CallCalculateOrderTotal ==
    /\ pc = "calculate_order_total"
    /\ out' = calculate_order_total(df, args)
    /\ pc' = IF out'.raised THEN "raised" ELSE "returned"
    /\ UNCHANGED <<df, args>>

NextTotal == CallCalculateOrderTotal

SpecTotal == InitTotal /\ [][NextTotal]_vars

\* the number in a cell, or the default when the column is absent, the cell
\* null or its content no number
NumberOr(i, col, default) ==
    IF col \notin df.columns THEN default
    ELSE IF isna(to_numeric_cell(df.rows[i][col])) THEN default
    ELSE to_numeric_cell(df.rows[i][col])
AdjustmentOr0(i, col) == IF col.some THEN NumberOr(i, col.v, Whole(0)) ELSE Whole(0)

\* C8: calculate_order_total sets, for every row, order_total = price*qty -
\* discount + tax + shipping, a missing or unparseable price, discount, tax or
\* shipping counting as 0 and a missing or unparseable quantity as 1, also
\* when the price or quantity column is absent from the batch; the result is
\* never null and the call does not raise.
C8_OrderTotal ==
    /\ pc # "raised"
    /\ Returned =>
        \A i \in 1..NRows(df) :
            /\ ~isna(out.value.rows[i]["order_total"])
            /\ out.value.rows[i]["order_total"] =
                  RAdd(RAdd(RSub(RMul(NumberOr(i, "price", Whole(0)),
                                      NumberOr(i, "quantity", Whole(1))),
                                 AdjustmentOr0(i, args.discount_col)),
                            AdjustmentOr0(i, args.tax_col)),
                       AdjustmentOr0(i, args.shipping_col))

\* C8, the part the code keeps: with the price and quantity columns in the
\* batch the call returns and every order_total is the stated sum.
C8_OrderTotalWhenColumnsPresent ==
    ({"price", "quantity"} \subseteq df.columns /\ pc # "calculate_order_total") => C8_OrderTotal

(***************************************************************************)
(* normalize_datetime  (src/transform.py 127-150)                           *)
(***************************************************************************)
\* Each named column is parsed with errors="coerce".  A "ts" cell holds the
\* instant and the batch, in date_tz, the zone of its dates.  With tz given,
\* tz_localize("UTC") attaches UTC to naive dates and raises on zone-aware
\* ones, which are then only converted (lines 141-148); either way the
\* instant stays.  fmt is not used by the pipeline.
normalize_datetime(b, columns, tz) ==
    [b EXCEPT
       !.date_tz = IF columns # {} /\ tz.some THEN tz.v ELSE @,
       !.rows = [i \in 1..NRows(b) |->
                   [c \in b.columns |-> IF c \in columns THEN to_datetime_cell(b.rows[i][c])
                                        ELSE b.rows[i][c]]]]

(***************************************************************************)
(* run_transform, from the order batch to the derived order_total           *)
(* (src/dags/etl_pipeline.py 292-301).  df holds the order records the      *)
(* parsers produced, out.df_orders the DataFrame as the steps rebind it.    *)
(***************************************************************************)
OrderColumns == {"order_id", "order_date", "customer_id", "currency", "total_amount"}
OrderId(i) == Str(<<"o", Digits[i + 1]>>)
Customer1 == Str(<<"c", "1">>)
\* pd.DataFrame(orders) keeps the None of a text column as it is; in the
\* amounts, numbers for the most part, it becomes NaN
OrderCellsOf(c) ==
    CASE c = "order_date"   -> {PyNone, Str(Date1)}
      [] c = "customer_id"  -> {PyNone, Customer1}
      [] c = "currency"     -> {PyNone, EUR}
      [] c = "total_amount" -> {NA, Whole(25), Str(<<"1", "2", ".", "5", "0">>), Str(<<"a", "b", "c">>)}
      [] OTHER              -> {OrderId(i) : i \in 1..MaxCurrencyRows}

OrderRowsAt(i) ==
    [order_id : {OrderId(i)},
     order_date : OrderCellsOf("order_date"),
     customer_id : OrderCellsOf("customer_id"),
     currency : OrderCellsOf("currency"),
     total_amount : OrderCellsOf("total_amount")]

RECURSIVE OrderRecords(_)
OrderRecords(n) ==
    IF n = 0 THEN {<<>>}
    ELSE {Append(rs, r) : rs \in OrderRecords(n - 1), r \in OrderRowsAt(n)}

\* the defaults of calculate_order_total, as run_transform calls it
DefaultTotalArgs ==
    [fn |-> "calculate_order_total", price_col |-> "price", qty_col |-> "quantity",
     discount_col |-> None, tax_col |-> None, shipping_col |-> None,
     out_col |-> "order_total"]

\* the arguments of the normalize_currency call of line 298
RunCurrencyArgs ==
    [fn |-> "normalize_currency", amount_col |-> "total_amount",
     currency_col |-> Some("currency"), rate_map |-> None, target_currency |-> USD]

\* df_orders["order_total"] = df_orders.get("total_amount_normalized")
assign_order_total(b) ==
    [b EXCEPT
     !.columns = b.columns \cup {"order_total"},
     !.rows = [i \in 1..NRows(b) |->
                 [c \in b.columns \cup {"order_total"} |->
                     IF c = "order_total"
                     THEN (IF "total_amount_normalized" \in b.columns
                           THEN b.rows[i]["total_amount_normalized"] ELSE NA)
                     ELSE b.rows[i][c]]]]

InitRun ==
    /\ pc = "run_transform"
    /\ df \in {[columns |-> OrderColumns, date_tz |-> "naive", rows |-> rs] :
                rs \in UNION {OrderRecords(n) : n \in 0..MaxCurrencyRows}}
    /\ args = [fn |-> "run_transform"]
    /\ out = NoResult

\* line 293-294: if orders: df_orders = pd.DataFrame(orders)
RunBuildFrame ==
    /\ pc = "run_transform"
    /\ IF NRows(df) > 0
       THEN /\ out' = [raised |-> FALSE, pending |-> FALSE, df_orders |-> df]
            /\ pc' = "normalize_datetime"
       ELSE /\ out' = [raised |-> FALSE, pending |-> FALSE, df_orders |-> df]
            /\ pc' = "load"
    /\ UNCHANGED <<df, args>>

\* lines 295-296
RunNormalizeDatetime ==
    /\ pc = "normalize_datetime"
    /\ out' = [out EXCEPT !.df_orders =
                  IF "order_date" \in out.df_orders.columns
                  THEN normalize_datetime(out.df_orders, {"order_date"}, Some("UTC"))
                  ELSE out.df_orders]
    /\ pc' = "normalize_currency"
    /\ UNCHANGED <<df, args>>

\* lines 297-299
RunNormalizeCurrency ==
    /\ pc = "normalize_currency"
    /\ \E resp \in Responses :
        LET r == normalize_currency(out.df_orders, RunCurrencyArgs, resp)
        IN  IF "total_amount" \notin out.df_orders.columns
            THEN out' = out /\ pc' = "calculate_order_total"
            ELSE IF r.raised
            THEN out' = [out EXCEPT !.raised = TRUE] /\ pc' = "raised"
            ELSE /\ out' = [out EXCEPT !.df_orders = assign_order_total(r.value)]
                 /\ pc' = "calculate_order_total"
    /\ UNCHANGED <<df, args>>

\* lines 300-301: the stage that derives order_total runs only when the
\* column does not exist yet
RunCalculateOrderTotal ==
    /\ pc = "calculate_order_total"
    /\ LET r == calculate_order_total(out.df_orders, DefaultTotalArgs)
       IN  IF "order_total" \in out.df_orders.columns
           THEN out' = out /\ pc' = "flag_fraud"
           ELSE IF r.raised
           THEN out' = [out EXCEPT !.raised = TRUE] /\ pc' = "raised"
           ELSE out' = [out EXCEPT !.df_orders = r.value] /\ pc' = "flag_fraud"
    /\ UNCHANGED <<df, args>>

NextRun ==
    \/ RunBuildFrame
    \/ RunNormalizeDatetime
    \/ RunNormalizeCurrency
    \/ RunCalculateOrderTotal

SpecRun == InitRun /\ [][NextRun]_vars

\* the metric-derivation step of the run is behind
MetricStepDone == pc = "flag_fraud"

\* C9: in a run of run_transform, once the metric-derivation step has run,
\* every order record has a numeric, non-null order_total, whatever the raw
\* total_amount of the order was.
C9_OrderTotalNeverNull ==
    MetricStepDone =>
        \A i \in 1..NRows(out.df_orders) :
            /\ "order_total" \in out.df_orders.columns
            /\ IsNum(out.df_orders.rows[i]["order_total"])

(***************************************************************************)
(* calculate_clv  (src/transform.py 263-293)                                *)
(*                                                                         *)
(* A batch carries date_tz, the time zone of its order_date values: "naive" *)
(* for dates without zone (plain date texts), "UTC" for zone-aware ones, as *)
(* normalize_datetime(tz="UTC") leaves them.  pd.to_datetime keeps it.      *)
(***************************************************************************)
NowDay == 20000     \* pd.Timestamp.utcnow(), as a day number, made naive

Customer2 == Str(<<"c", "2">>)

\* groupby(customer_id_col): the non-null keys (dropna=True), sorted
group_keys(b, key) ==
    LET keys == {k \in {b.rows[i][key] : i \in 1..NRows(b)} : ~isna(k)}
        least(S) == CHOOSE x \in S : \A y \in S \ {x} : TextLess(x.s, y.s)
        ordered[S \in SUBSET keys] ==
            IF S = {} THEN <<>> ELSE <<least(S)>> \o ordered[S \ {least(S)}]
    IN  ordered[keys]

\* the rows of one group, in input order
group_rows(b, key, k) == SelectSeq(b.rows, LAMBDA r : r[key] = k)

\* max of a datetime column of a group: NaT when every value is NaT
max_date(col) ==
    LET v == dropna(col)
    IN  IF Len(v) = 0 THEN NA
        ELSE CHOOSE x \in Range(v) : \A y \in Range(v) : y.t <= x.t

\* now - last_order_date: a naive now and a zone-aware column cannot be
\* subtracted (TypeError); .dt.days of NaT is null
recency_days(last) == IF isna(last) THEN NA ELSE Whole(NowDay - last.t)

calculate_clv(b, a) ==
    LET total(r) == fillna(<<to_numeric_cell(r[a.order_total_col])>>, Whole(0))[1]
        date(r) == IF "order_date" \in b.columns THEN to_datetime_cell(r["order_date"]) ELSE NA
        keys == group_keys(b, a.customer_id_col)
        agg(k) ==
            LET rs == group_rows(b, a.customer_id_col, k)
                totals == [i \in 1..Len(rs) |-> total(rs[i])]
                last == max_date([i \in 1..Len(rs) |-> date(rs[i])])
            IN  [customer_id |-> k,
                 clv |-> SumNums(totals),
                 total_orders |-> Len(dropna(totals)),
                 avg_order_value |-> fillna(<<mean(totals)>>, Whole(0))[1],
                 last_order_date |-> last,
                 recency_days |-> recency_days(last),
                 frequency |-> Len(dropna(totals))]
    IN  IF a.order_total_col \notin b.columns THEN Raised("AttributeError")
        ELSE IF "order_date" \in b.columns /\ b.date_tz # "naive" THEN Raised("TypeError")
        ELSE [raised |-> FALSE, pending |-> FALSE,
              value |-> [i \in 1..Len(keys) |-> agg(keys[i])]]

ClvRows(cols) ==
    IF cols = {"customer_id", "order_total", "order_date"}
    THEN [customer_id : {NA, Customer1, Customer2},
          order_total : {NA, Whole(10), Str(<<"a", "b", "c">>)},
          order_date : {NA, Str(Date1)}]
    ELSE IF cols = {"customer_id", "order_total"}
    THEN [customer_id : {NA, Customer1, Customer2},
          order_total : {NA, Whole(10), Str(<<"a", "b", "c">>)}]
    ELSE [customer_id : {NA, Customer1, Customer2},
          order_date : {NA, Str(Date1)}]

ClvRecords(cols, n) == SeqsUpTo(ClvRows(cols), n)

\* a zone-aware batch holds timestamps, not texts
AsAware(b) ==
    [b EXCEPT !.date_tz = "UTC",
              !.rows = [i \in 1..NRows(b) |->
                           [b.rows[i] EXCEPT !["order_date"] = to_datetime_cell(@)]]]

ClvBatches(n) ==
    LET naive == {[columns |-> cols, date_tz |-> "naive", rows |-> rs] :
                    cols \in {{"customer_id", "order_total", "order_date"}},
                    rs \in ClvRecords({"customer_id", "order_total", "order_date"}, n)}
        nodate == {[columns |-> {"customer_id", "order_total"}, date_tz |-> "naive", rows |-> rs] :
                    rs \in ClvRecords({"customer_id", "order_total"}, n)}
        nototal == {[columns |-> {"customer_id", "order_date"}, date_tz |-> "naive", rows |-> rs] :
                    rs \in ClvRecords({"customer_id", "order_date"}, n)}
    IN  naive \cup {AsAware(b) : b \in {x \in naive : NRows(x) > 0}} \cup nodate \cup nototal

InitClv ==
    /\ pc = "calculate_clv"
    /\ df \in ClvBatches(MaxRows)
    /\ args = [fn |-> "calculate_clv", customer_id_col |-> "customer_id",
               order_total_col |-> "order_total"]
    /\ out = NoResult

CallCalculateClv ==
    /\ pc = "calculate_clv"
    /\ out' = calculate_clv(df, args)
    /\ pc' = IF out'.raised THEN "raised" ELSE "returned"
    /\ UNCHANGED <<df, args>>

NextClv == CallCalculateClv

SpecClv == InitClv /\ [][NextClv]_vars

CustomerKeys == {k \in {df.rows[i]["customer_id"] : i \in 1..NRows(df)} : ~isna(k)}
OrdersOf(k) == {i \in 1..NRows(df) : df.rows[i]["customer_id"] = k}
TotalOr0(i) ==
    IF isna(to_numeric_cell(df.rows[i]["order_total"])) THEN Whole(0)
    ELSE to_numeric_cell(df.rows[i]["order_total"])
RECURSIVE SumOver(_)
SumOver(I) ==
    IF I = {} THEN Whole(0)
    ELSE LET i == CHOOSE x \in I : TRUE IN RAdd(TotalOr0(i), SumOver(I \ {i}))

\* C10: calculate_clv returns exactly one row per distinct (non-null)
\* customer key of the order batch, with clv the sum of that customer's
\* order totals (unparseable or null totals counted as 0), total_orders the
\* number of that customer's orders and frequency equal to total_orders.
C10_ClvPerCustomer ==
    ({"customer_id", "order_total"} \subseteq df.columns /\ pc # "calculate_clv") =>
        /\ pc = "returned"
        /\ Len(out.value) = Cardinality(CustomerKeys)
        /\ {out.value[n].customer_id : n \in 1..Len(out.value)} = CustomerKeys
        /\ \A n \in 1..Len(out.value) :
            /\ out.value[n].clv = SumOver(OrdersOf(out.value[n].customer_id))
            /\ out.value[n].total_orders = Cardinality(OrdersOf(out.value[n].customer_id))
            /\ out.value[n].frequency = out.value[n].total_orders

\* C10, the part the code keeps: it holds of every batch whose order dates
\* carry no time zone.
C10_ClvPerCustomerNaiveDates ==
    df.date_tz = "naive" => C10_ClvPerCustomer

(***************************************************************************)
(* flag_fraud  (src/transform.py 296-349)                                   *)
(***************************************************************************)
\* bool(cell), as Python's "not x" and "x and y" take it
truthy(c) ==
    CASE c.k = "none" -> FALSE
      [] c.k = "na"   -> TRUE
      [] c.k = "num"  -> c.n # 0
      [] c.k = "str"  -> c.s # <<>>
      [] c.k = "bool" -> c.v
      [] c.k = "list" -> c.l # <<>>
      [] c.k = "map"  -> DOMAIN c.m # {}
      [] OTHER        -> TRUE

\* x != y on two cells: NaN differs from everything, itself included
py_ne(x, y) == x # y \/ x = NA

\* row.get(c): the cell, None when the batch has no such column
row_get(b, r, c) == IF c \in b.columns THEN r[c] ELSE PyNone

UpperCase == <<"A", "B", "C", "D", "E", "F", "G", "H", "I", "J", "K", "L", "M",
               "N", "O", "P", "Q", "R", "S", "T", "U", "V", "W", "X", "Y", "Z">>
LowerCase == <<"a", "b", "c", "d", "e", "f", "g", "h", "i", "j", "k", "l", "m",
               "n", "o", "p", "q", "r", "s", "t", "u", "v", "w", "x", "y", "z">>

\* str.lower()
lower(s) ==
    [i \in DOMAIN s |->
        IF \E j \in DOMAIN UpperCase : UpperCase[j] = s[i]
        THEN LowerCase[CHOOSE j \in DOMAIN UpperCase : UpperCase[j] = s[i]]
        ELSE s[i]]

\* str.split(sep) for a one-character separator
RECURSIVE split(_, _)
split(s, sep) ==
    IF \A i \in DOMAIN s : s[i] # sep THEN <<s>>
    ELSE LET i == CHOOSE x \in DOMAIN s :
                      s[x] = sep /\ \A y \in 1..(x - 1) : s[y] # sep
         IN  <<SubSeq(s, 1, i - 1)>> \o split(SubSeq(s, i + 1, Len(s)), sep)

DISPOSABLE_EMAIL_DOMAINS ==
    {<<"m", "a", "i", "l", "i", "n", "a", "t", "o", "r", ".", "c", "o", "m">>,
     <<"1", "0", "m", "i", "n", "u", "t", "e", "m", "a", "i", "l", ".", "c", "o", "m">>,
     <<"t", "e", "m", "p", "m", "a", "i", "l", ".", "c", "o", "m">>,
     <<"t", "r", "a", "s", "h", "m", "a", "i", "l", ".", "c", "o", "m">>}

\* lines 309-315: the lower-cased text after the one "@", or None
_email_domain(email) ==
    IF ~truthy(email) \/ email.k # "str" THEN None
    ELSE LET parts == split(email.s, "@")
         IN  IF Len(parts) = 2 THEN Some(lower(parts[Len(parts)])) ELSE None

\* line 309: set(suspicious_email_domains or []) | DISPOSABLE_EMAIL_DOMAINS
suspicious_domains(given) ==
    (IF given.some THEN given.v ELSE {}) \cup DISPOSABLE_EMAIL_DOMAINS

\* lines 322-326: float(ot), 0.0 for None, NaN and whatever float() rejects
order_total_value(ot) ==
    CASE ot.k = "none" -> Whole(0)
      [] ot.k = "na"   -> Whole(0)
      [] ot.k = "num"  -> ot
      [] ot.k = "bool" -> IF ot.v THEN Whole(1) ELSE Whole(0)
      [] ot.k = "str"  -> IF float(strip(ot.s)) = NA THEN Whole(0) ELSE float(strip(ot.s))
      [] OTHER         -> Whole(0)

HighValueWeight == 3
CountryWeight == 2
EmailWeight == 3
IdentityWeight == 1

\* lines 320-342: the score of one row
fraud_score(b, r, a) ==
    LET otv == order_total_value(row_get(b, r, "order_total"))
        sc == row_get(b, r, "shipping_country")
        bc == row_get(b, r, "billing_country")
        ed == _email_domain(row_get(b, r, "email"))
        missing_identity ==
            \E c \in {"billing_name", "billing_address"} : ~truthy(row_get(b, r, c))
    IN  (IF ~RLess(otv, a.high_value_threshold) THEN HighValueWeight ELSE 0)
      + (IF truthy(sc) /\ truthy(bc) /\ py_ne(sc, bc) THEN CountryWeight ELSE 0)
      + (IF ed.some /\ ed.v # <<>> /\ ed.v \in suspicious_domains(a.suspicious_email_domains)
         THEN EmailWeight ELSE 0)
      + (IF missing_identity THEN IdentityWeight ELSE 0)

\* a flag that the high-value weight reaches on its own
fraud_flag_at_three(score) == score >= 3

\* line 344: flags.append(score >= 4)
fraud_flag(score) == score >= 4

flag_fraud(b, a) ==
    LET cols == b.columns \cup {"fraud_score", "fraud_flag"}
    IN  [raised |-> FALSE, pending |-> FALSE,
         value |-> [b EXCEPT
                    !.columns = cols,
                    !.rows = [i \in 1..NRows(b) |->
                                [c \in cols |->
                                    CASE c = "fraud_score" -> Whole(fraud_score(b, b.rows[i], a))
                                      [] c = "fraud_flag" ->
                                            Bool(fraud_flag(fraud_score(b, b.rows[i], a)))
                                      [] OTHER -> b.rows[i][c]]]]]

FraudColumns ==
    {"order_total", "shipping_country", "billing_country", "email",
     "billing_name", "billing_address"}
US == Str(<<"U", "S">>)
CN == Str(<<"C", "N">>)
OkEmail == Str(<<"u", "@", "e", ".", "c", "o">>)
DisposableEmail ==
    Str(<<"u", "@", "m", "a", "i", "l", "i", "n", "a", "t", "o", "r", ".", "c", "o", "m">>)
UpperCaseEmail ==
    Str(<<"u", "@", "M", "A", "I", "L", "I", "N", "A", "T", "O", "R", ".", "C", "O", "M">>)
CustomDomainEmail == Str(<<"u", "@", "x", ".", "i", "o">>)
TwoAtEmail ==
    Str(<<"a", "@", "b", "@", "m", "a", "i", "l", "i", "n", "a", "t", "o", "r", ".", "c", "o", "m">>)
NoAtEmail == Str(<<"m", "a", "i", "l", "i", "n", "a", "t", "o", "r", ".", "c", "o", "m">>)
EmailCells ==
    {PyNone, NA, Whole(5), OkEmail, DisposableEmail, UpperCaseEmail,
     CustomDomainEmail, TwoAtEmail, NoAtEmail}
CustomDomains == {None, Some({<<"x", ".", "i", "o">>}), Some({<<"X", ".", "I", "O">>})}

\* rows that vary the rules together, rows that vary the nulls, rows that
\* vary the email
FraudRows ==
    [order_total : {Whole(50), Whole(1000)}, shipping_country : {US},
     billing_country : {US, CN}, email : {OkEmail, DisposableEmail},
     billing_name : {Str(<<"n">>), PyNone}, billing_address : {Str(<<"a">>)}]
    \cup
    [order_total : {PyNone, NA, Str(<<"2", "0", "0", "0">>), Str(<<"a", "b", "c">>)},
     shipping_country : {NA}, billing_country : {NA, US}, email : {PyNone},
     billing_name : {NA}, billing_address : {Str(<<"a">>)}]
    \cup
    [order_total : {Whole(1000)}, shipping_country : {US}, billing_country : {US},
     email : {OkEmail}, billing_name : {NA, EmptyText},
     billing_address : {NA, Str(<<"a">>)}]
    \cup
    [order_total : {Whole(50)}, shipping_country : {PyNone}, billing_country : {US},
     email : EmailCells, billing_name : {Str(<<"n">>)}, billing_address : {Str(<<"a">>)}]

\* the batch with only some of its columns
Project(b, cols) ==
    [columns |-> cols,
     rows |-> [i \in 1..NRows(b) |-> [c \in cols |-> b.rows[i][c]]]]

FraudBatches(n) ==
    LET full == {[columns |-> FraudColumns, rows |-> rs] : rs \in SeqsUpTo(FraudRows, n)}
    IN  full \cup {Project(b, cols) : b \in full,
                      cols \in {{"order_total"}, {"email", "billing_name", "billing_address"}}}

InitFraud ==
    /\ pc = "flag_fraud"
    /\ df \in FraudBatches(MaxQualityRows)
    /\ args \in [fn : {"flag_fraud"},
                 high_value_threshold : {Whole(1000)},
                 suspicious_email_domains : CustomDomains]
    /\ out = NoResult

CallFlagFraud ==
    /\ pc = "flag_fraud"
    /\ out' = flag_fraud(df, args)
    /\ pc' = IF out'.raised THEN "raised" ELSE "returned"
    /\ UNCHANGED <<df, args>>

NextFraud == CallFlagFraud

SpecFraud == InitFraud /\ [][NextFraud]_vars

\* the claims' reading of a batch: a field is present when its column
\* exists and the cell is neither null nor falsy
Field(i, c) == IF c \in df.columns THEN df.rows[i][c] ELSE PyNone
Present(i, c) == ~isna(Field(i, c)) /\ truthy(Field(i, c))
Score(i) == out.value.rows[i]["fraud_score"].n
Flag(i) == out.value.rows[i]["fraud_flag"].v
HighValue(i) ==
    /\ ~isna(to_numeric_cell(Field(i, "order_total")))
    /\ ~RLess(to_numeric_cell(Field(i, "order_total")), args.high_value_threshold)
CountryMismatch(i) ==
    /\ Present(i, "shipping_country") /\ Present(i, "billing_country")
    /\ Field(i, "shipping_country") # Field(i, "billing_country")
MissingIdentity(i) == ~Present(i, "billing_name") \/ ~Present(i, "billing_address")
OneAt(s) == Cardinality({j \in DOMAIN s : s[j] = "@"}) = 1
AfterAt(s) == SubSeq(s, (CHOOSE j \in DOMAIN s : s[j] = "@") + 1, Len(s))
SuppliedDomains == IF args.suspicious_email_domains.some THEN args.suspicious_email_domains.v ELSE {}
\* the email's domain is a built-in one or one the caller supplied, the
\* supplied ones taken as written
DisposableAsSupplied(i) ==
    /\ IsStr(Field(i, "email")) /\ OneAt(Field(i, "email").s)
    /\ lower(AfterAt(Field(i, "email").s)) \in DISPOSABLE_EMAIL_DOMAINS \cup SuppliedDomains
\* the same, the supplied ones compared without regard to letter case
DisposableAnyCase(i) ==
    /\ IsStr(Field(i, "email")) /\ OneAt(Field(i, "email").s)
    /\ lower(AfterAt(Field(i, "email").s)) \in
          DISPOSABLE_EMAIL_DOMAINS \cup {lower(d) : d \in SuppliedDomains}
ExpectedScore(i) ==
      (IF HighValue(i) THEN 3 ELSE 0) + (IF CountryMismatch(i) THEN 2 ELSE 0)
    + (IF DisposableAsSupplied(i) THEN 3 ELSE 0) + (IF MissingIdentity(i) THEN 1 ELSE 0)

\* C11: flag_fraud gives every record a fraud_score equal to the sum of the
\* weights of the rules it triggers (3 high value, 2 country mismatch with
\* both countries present, 3 disposable email, 1 billing_name or
\* billing_address missing or falsy), a non-negative integer, sets fraud_flag
\* exactly when the score is at least 4, and never raises.
C11_FraudScore ==
    /\ pc # "raised"
    /\ Returned =>
        \A i \in 1..NRows(df) :
            /\ Score(i) = ExpectedScore(i)
            /\ Score(i) >= 0
            /\ Flag(i) <=> Score(i) >= 4

\* C11, the part the code keeps: the score is a non-negative integer, the
\* flag is set exactly from 4 on, the call never raises, and the score is the
\* stated sum on every row none of whose country and billing cells is NaN.
C11_FraudScoreWithoutNaN ==
    /\ pc # "raised"
    /\ Returned =>
        \A i \in 1..NRows(df) :
            /\ Score(i) >= 0
            /\ Flag(i) <=> Score(i) >= 4
            /\ (\A c \in {"shipping_country", "billing_country", "billing_name",
                          "billing_address"} : Field(i, c) # NA)
                  => Score(i) = ExpectedScore(i)

\* no rule but the high-value one can fire: countries equal, a plain email,
\* name and address given
OnlyHighValueCanFire(i) ==
    /\ Field(i, "shipping_country") = US /\ Field(i, "billing_country") = US
    /\ Field(i, "email") = OkEmail
    /\ Field(i, "billing_name") = Str(<<"n">>) /\ Field(i, "billing_address") = Str(<<"a">>)

EmailAdds(i) ==
    Score(i) - fraud_score(df, [df.rows[i] EXCEPT !["email"] = PyNone], args)

\* C13: the disposable-email rule adds 3 exactly when the email has exactly
\* one "@" and the part after it, compared case-insensitively, is a built-in
\* or a caller-supplied domain, in whatever letter case the caller supplied
\* it; any other email adds nothing.
C13_DisposableEmailRule ==
    (Returned /\ "email" \in df.columns) =>
        \A i \in 1..NRows(df) :
            /\ EmailAdds(i) \in {0, 3}
            /\ EmailAdds(i) = 3 <=> DisposableAnyCase(i)

\* C13, the part the code keeps: the rule is as stated for the built-in
\* domains and for supplied domains written in lower case.
C13_DisposableEmailRuleLowerCaseSupplied ==
    (\A d \in SuppliedDomains : lower(d) = d) => C13_DisposableEmailRule

(***************************************************************************)
(* validate_orders  (src/transform.py 352-383)                              *)
(***************************************************************************)
DefaultRequiredFields == <<"order_id", "customer_id", "order_date", "order_total">>
Paid == <<"p", "a", "i", "d">>
Shipped == <<"s", "h", "i", "p", "p", "e", "d">>
DefaultAllowedStatuses ==
    {Paid, <<"p", "e", "n", "d", "i", "n", "g">>,
     <<"r", "e", "f", "u", "n", "d", "e", "d">>,
     <<"c", "a", "n", "c", "e", "l", "l", "e", "d">>}

\* the characters of a text as one string
RECURSIVE Join(_)
Join(s) == IF s = <<>> THEN "" ELSE s[1] \o Join(Tail(s))

\* the decimal digits of a natural number
RECURSIVE NatText(_)
NatText(n) == IF n < 10 THEN <<Digits[n + 1]>> ELSE NatText(n \div 10) \o <<Digits[(n % 10) + 1]>>

\* str(cell) of a text, a None, a NaN or an int (no other cell reaches it here)
str(c) ==
    CASE c.k = "str"  -> c.s
      [] c.k = "num"  -> IF c.n < 0 THEN <<"-">> \o NatText(-c.n) ELSE NatText(c.n)
      [] c.k = "none" -> <<"N", "o", "n", "e">>
      [] c.k = "na"   -> <<"n", "a", "n">>

\* email_re.match: [^@\s]+@[^@\s]+\.[^@\s]+ found at the start of the text
EmailChar(ch) == ch # "@" /\ ch \notin Whitespace
email_re_match(s) ==
    \E a, b \in DOMAIN s :
        /\ 1 < a /\ a + 1 < b /\ b < Len(s)
        /\ s[a] = "@" /\ s[b] = "."
        /\ \A j \in 1..(a - 1) : EmailChar(s[j])
        /\ \A j \in (a + 1)..(b - 1) : EmailChar(s[j])
        /\ EmailChar(s[b + 1])

\* line 368: not row.get(f) and row.get(f) != 0
missing_field(v) == ~truthy(v) /\ ~((IsNum(v) /\ v.n = 0) \/ (v.k = "bool" /\ ~v.v))

\* lines 365-378: the issues of one row
row_issues(b, r, required_fields, allowed_statuses) ==
    LET missing == SelectSeq(required_fields, LAMBDA f : missing_field(row_get(b, r, f)))
        status == row_get(b, r, "status")
        e == row_get(b, r, "email")
    IN  [n \in 1..Len(missing) |-> "missing_" \o missing[n]]
        \o (IF "status" \in b.columns /\ truthy(status)
               /\ ~(IsStr(status) /\ status.s \in allowed_statuses)
            THEN <<"invalid_status:" \o Join(str(status))>> ELSE <<>>)
        \o (IF truthy(e) /\ ~email_re_match(str(e)) THEN <<"invalid_email">> ELSE <<>>)

\* a validation that hands back only the records without issues
validate_orders_rejecting(b, a) ==
    LET required_fields == DefaultRequiredFields
        kept == SelectSeq(b.rows, LAMBDA r :
                    row_issues(b, r, required_fields, DefaultAllowedStatuses) = <<>>)
        cols == b.columns \cup {"validation_issues"}
    IN  [raised |-> FALSE, pending |-> FALSE,
         value |-> [b EXCEPT
                    !.columns = cols,
                    !.rows = [i \in 1..Len(kept) |->
                                [c \in cols |-> IF c = "validation_issues" THEN List(<<>>)
                                                ELSE kept[i][c]]]]]

validate_orders(b, a) ==
    LET required_fields ==
            IF a.required_fields.some /\ a.required_fields.v # <<>>
            THEN a.required_fields.v ELSE DefaultRequiredFields
        allowed_statuses ==
            IF a.allowed_statuses.some /\ a.allowed_statuses.v # {}
            THEN a.allowed_statuses.v ELSE DefaultAllowedStatuses
        cols == b.columns \cup {"validation_issues"}
    IN  [raised |-> FALSE, pending |-> FALSE,
         value |-> [b EXCEPT
                    !.columns = cols,
                    !.rows = [i \in 1..NRows(b) |->
                                [c \in cols |->
                                    IF c = "validation_issues"
                                    THEN List(row_issues(b, b.rows[i], required_fields,
                                                         allowed_statuses))
                                    ELSE b.rows[i][c]]]]]

ValidateColumns == {"order_id", "customer_id", "order_date", "order_total", "status", "email"}
Order1 == Str(<<"o", "1">>)

\* rows that vary the required fields, rows that vary status and email, rows
\* that vary the date
ValidateRows ==
    [order_id : {PyNone, Order1, EmptyText}, customer_id : {PyNone, Str(<<"c", "1">>)},
     order_date : {Str(Date1)}, order_total : {PyNone, NA, Whole(0), Whole(10)},
     status : {Str(Paid)}, email : {OkEmail}]
    \cup
    [order_id : {Order1}, customer_id : {Str(<<"c", "1">>)}, order_date : {Str(Date1)},
     order_total : {Whole(10)}, status : {PyNone, Str(Paid), Str(Shipped)},
     email : {PyNone, OkEmail, NoAtEmail}]
    \cup
    [order_id : {Order1, NA}, customer_id : {Str(<<"c", "1">>)},
     order_date : {PyNone, Ts(18262)}, order_total : {Whole(10)},
     status : {Str(Paid)}, email : {OkEmail}]

ValidateBatches(n) ==
    LET full == {[columns |-> ValidateColumns, rows |-> rs] : rs \in SeqsUpTo(ValidateRows, n)}
    IN  full \cup {Project(b, cols) : b \in full,
                      cols \in {{"order_id", "customer_id", "order_date", "order_total"},
                                {"customer_id", "order_date", "order_total", "email"}}}

InitValidate ==
    /\ pc = "validate_orders"
    /\ df \in ValidateBatches(MaxQualityRows)
    /\ args \in {[fn |-> "validate_orders", required_fields |-> None, allowed_statuses |-> None],
                 [fn |-> "validate_orders",
                  required_fields |-> Some(<<"order_total", "order_id">>),
                  allowed_statuses |-> None],
                 [fn |-> "validate_orders", required_fields |-> None,
                  allowed_statuses |-> Some({Shipped})]}
    /\ out = NoResult

CallValidateOrders ==
    /\ pc = "validate_orders"
    /\ out' = validate_orders(df, args)
    /\ pc' = IF out'.raised THEN "raised" ELSE "returned"
    /\ UNCHANGED <<df, args>>

NextValidate == CallValidateOrders

SpecValidate == InitValidate /\ [][NextValidate]_vars

RequiredFields ==
    IF args.required_fields.some THEN Range(args.required_fields.v)
    ELSE {"order_id", "customer_id", "order_date", "order_total"}
AllowedStatuses ==
    IF args.allowed_statuses.some THEN args.allowed_statuses.v ELSE DefaultAllowedStatuses
Issues(i) == Range(out.value.rows[i]["validation_issues"].l)
\* absent, null or otherwise falsy, the number 0 excepted
FieldMissing(i, f) ==
    (isna(Field(i, f)) \/ ~truthy(Field(i, f))) /\ ~(IsNum(Field(i, f)) /\ Field(i, f).n = 0)
FullyValid(i) ==
    /\ \A f \in RequiredFields : ~FieldMissing(i, f)
    /\ IsStr(Field(i, "status")) /\ Field(i, "status").s \in AllowedStatuses
    /\ Field(i, "email") = OkEmail

\* C14: validate_orders puts missing_<field> into a record's
\* validation_issues, for each required field, exactly when the field is
\* absent, null or otherwise falsy, the number 0 not being missing; a record
\* with every required field populated, an allowed status and a well-formed
\* email has no issue.
C14_MissingFields ==
    Returned =>
        \A i \in 1..NRows(df) :
            /\ \A f \in RequiredFields : ("missing_" \o f) \in Issues(i) <=> FieldMissing(i, f)
            /\ FullyValid(i) => Issues(i) = {}

\* C14, the part the code keeps: it holds of every record none of whose
\* required fields is NaN.
C14_MissingFieldsWithoutNaN ==
    Returned =>
        \A i \in 1..NRows(df) :
            /\ (\A f \in RequiredFields : Field(i, f) # NA) =>
                  \A f \in RequiredFields :
                      ("missing_" \o f) \in Issues(i) <=> FieldMissing(i, f)
            /\ FullyValid(i) => Issues(i) = {}

(***************************************************************************)
(* validate_orders_list and raise_if_issues  (src/validate.py 13-39, 69-73),*)
(* called one after the other as cli_check_staging does (lines 84-85).      *)
(* An order is a dict: a function from the keys it has to cells.  df holds  *)
(* the list of orders, out.results the (identifier, issues) pairs.          *)
(***************************************************************************)
\* o.get(key)
dict_get(o, key) == IF key \in DOMAIN o THEN o[key] ELSE PyNone

\* float(value) of lines 31: the number, NA when float() raises
float_of(v) ==
    CASE v.k = "num"  -> v
      [] v.k = "bool" -> IF v.v THEN Whole(1) ELSE Whole(0)
      [] v.k = "str"  -> float(strip(v.s))
      [] OTHER        -> NA

\* line 23: str(o.get("order_id") or f"idx:{idx}")
order_ident(o, idx) ==
    IF truthy(dict_get(o, "order_id")) THEN Join(str(dict_get(o, "order_id")))
    ELSE "idx:" \o ToString(idx)

\* line 25
missing_in_dict(o, f) ==
    \/ f \notin DOMAIN o
    \/ dict_get(o, f) = PyNone
    \/ (IsStr(dict_get(o, f)) /\ strip(dict_get(o, f).s) = <<>>)

\* a sign test that takes zero for negative
is_negative_or_zero(val) == ~RLess(Whole(0), val)

\* line 32: val < 0
is_negative(val) == RLess(val, Whole(0))

\* lines 29-35
numeric_issues(o) ==
    IF "order_total" \in DOMAIN o /\ dict_get(o, "order_total") # PyNone
    THEN LET val == float_of(dict_get(o, "order_total"))
         IN  IF val = NA /\ dict_get(o, "order_total") # NA THEN <<"invalid_order_total">>
             ELSE IF val # NA /\ is_negative(val) THEN <<"negative_order_total">>
             ELSE <<>>
    ELSE <<>>

validate_orders_list(orders, required_fields) ==
    LET required == IF required_fields.some /\ required_fields.v # <<>>
                    THEN required_fields.v ELSE DefaultRequiredFields
        issues(o) ==
            LET missing == SelectSeq(required, LAMBDA f : missing_in_dict(o, f))
            IN  [n \in 1..Len(missing) |-> "missing_" \o missing[n]] \o numeric_issues(o)
    IN  [n \in 1..Len(orders) |-> <<order_ident(orders[n], n - 1), issues(orders[n])>>]

\* ", ".join(iss)
RECURSIVE JoinWith(_, _)
JoinWith(iss, sep) ==
    IF Len(iss) = 0 THEN ""
    ELSE IF Len(iss) = 1 THEN iss[1]
    ELSE iss[1] \o sep \o JoinWith(Tail(iss), sep)

\* a selection that keeps every entry
all_entries(issues) == issues

\* line 70: bad = [i for i in issues if i[1]]
bad_entries(issues) == SelectSeq(issues, LAMBDA i : i[2] # <<>>)

\* lines 69-73: the lines of the message of the ValueError, none when the
\* call returns
raise_if_issues(issues, name) ==
    LET bad == bad_entries(issues)
        lines == [n \in 1..Len(bad) |-> bad[n][1] \o ": " \o JoinWith(bad[n][2], ", ")]
    IN  IF bad # <<>>
        THEN [raised |-> TRUE, exc |-> "ValueError", name |-> name, lines |-> lines]
        ELSE [raised |-> FALSE, exc |-> "", name |-> name, lines |-> <<>>]

Blank == Str(<<" ", " ">>)
OrderDicts ==
    [order_id : {Order1, PyNone, Blank, EmptyText}, customer_id : {Str(<<"c", "1">>)},
     order_date : {Str(Date1)},
     order_total : {Whole(10), Whole(0), Whole(-5), Str(<<"-", "3">>), Str(<<"a", "b", "c">>),
                    PyNone, NA}]
    \cup [customer_id : {Str(<<"c", "1">>), PyNone}, order_date : {Str(Date1)}]
    \cup [order_id : {Order1, Str(<<"o", "2">>)}, customer_id : {Str(<<"c", "1">>)},
          order_date : {Str(Date1), Blank}]

InitValidateList ==
    /\ pc = "validate_orders_list"
    /\ df \in SeqsUpTo(OrderDicts, MaxQualityRows)
    /\ args \in [fn : {"validate_orders_list"},
                 required_fields : {None, Some(<<"order_total", "order_id">>)},
                 name : {"orders.json"}]
    /\ out = NoResult

CallValidateOrdersList ==
    /\ pc = "validate_orders_list"
    /\ out' = [raised |-> FALSE, pending |-> FALSE,
               results |-> validate_orders_list(df, args.required_fields)]
    /\ pc' = "raise_if_issues"
    /\ UNCHANGED <<df, args>>

CallRaiseIfIssues ==
    /\ pc = "raise_if_issues"
    /\ LET r == raise_if_issues(out.results, args.name)
       IN  /\ out' = [raised |-> r.raised, pending |-> FALSE, results |-> out.results,
                      lines |-> r.lines]
           /\ pc' = IF r.raised THEN "raised" ELSE "returned"
    /\ UNCHANGED <<df, args>>

NextValidateList == CallValidateOrdersList \/ CallRaiseIfIssues

SpecValidateList == InitValidateList /\ [][NextValidateList]_vars

Validated == pc \in {"raise_if_issues", "raised", "returned"}
RequiredOfList ==
    IF args.required_fields.some THEN Range(args.required_fields.v)
    ELSE {"order_id", "customer_id", "order_date", "order_total"}
IssuesOf(n) == Range(out.results[n][2])
TotalOf(n) == IF "order_total" \in DOMAIN df[n] THEN df[n]["order_total"] ELSE PyNone
\* a number, or a text float() reads as one
NumericTotal(n) == IsNum(TotalOf(n)) \/ (IsStr(TotalOf(n)) /\ float(strip(TotalOf(n).s)) # NA)
NumberOf(n) == IF IsNum(TotalOf(n)) THEN TotalOf(n) ELSE float(strip(TotalOf(n).s))
AbsentNoneOrBlank(n, f) ==
    \/ f \notin DOMAIN df[n]
    \/ df[n][f] = PyNone
    \/ (IsStr(df[n][f]) /\ \A j \in DOMAIN df[n][f].s : df[n][f].s[j] = " ")

\* C15: validate_orders_list returns one (identifier, issues) pair per input
\* order, in input order; issues has missing_<f> exactly for the required
\* fields that are absent, None or blank, negative_order_total exactly when
\* order_total is a number below 0 and invalid_order_total exactly when it is
\* non-null and not numeric; an order with every required field and a
\* non-negative numeric total has no issue.
C15_ValidateOrdersList ==
    Validated =>
        /\ Len(out.results) = Len(df)
        /\ \A n \in 1..Len(df) :
            /\ out.results[n][1] =
                  (IF "order_id" \in DOMAIN df[n] /\ IsStr(df[n]["order_id"])
                      /\ df[n]["order_id"].s # <<>>
                   THEN Join(df[n]["order_id"].s) ELSE "idx:" \o ToString(n - 1))
            /\ \A f \in RequiredOfList :
                  ("missing_" \o f) \in IssuesOf(n) <=> AbsentNoneOrBlank(n, f)
            /\ "negative_order_total" \in IssuesOf(n) <=>
                  (NumericTotal(n) /\ RLess(NumberOf(n), Whole(0)))
            /\ "invalid_order_total" \in IssuesOf(n) <=>
                  (~isna(TotalOf(n)) /\ ~NumericTotal(n))
            /\ ((\A f \in RequiredOfList : ~AbsentNoneOrBlank(n, f))
                   /\ NumericTotal(n) /\ ~RLess(NumberOf(n), Whole(0)))
                  => out.results[n][2] = <<>>

C15_Witness ==
    /\ Validated
    /\ args.required_fields = None
    /\ Len(df) = 2
    /\ DOMAIN df[1] = {"order_id", "customer_id", "order_date", "order_total"}
    /\ df[1]["order_total"] = Whole(10)
    /\ out.results[1] = <<"o1", <<>>>>
    /\ DOMAIN df[2] = {"order_id", "customer_id", "order_date", "order_total"}
    /\ df[2]["order_id"] = PyNone /\ df[2]["order_total"] = Whole(-5)
    /\ out.results[2] = <<"idx:1", <<"missing_order_id", "negative_order_total">>>>

Raises == pc = "raised"
AfterRaiseIfIssues == pc \in {"raised", "returned"} /\ args.fn = "validate_orders_list"
Failing == {n \in 1..Len(out.results) : out.results[n][2] # <<>>}

\* C16: raise_if_issues raises a single error exactly when some entry of the
\* validation result has a non-empty issue list; the message has one line
\* for every identifier that has issues, with its issues, in order, and no
\* line for an identifier that passed; with no issues anywhere it returns.
C16_RaiseIfIssues ==
    AfterRaiseIfIssues =>
        /\ Raises <=> Failing # {}
        /\ Len(out.lines) = Cardinality(Failing)
        /\ \A k \in 1..Len(out.lines) :
              LET n == Ascending(Failing)[k]
              IN  out.lines[k] = out.results[n][1] \o ": " \o JoinWith(out.results[n][2], ", ")

C16_Witness ==
    /\ AfterRaiseIfIssues /\ Raises
    /\ Len(out.results) = 2
    /\ out.results[1][2] = <<>>
    /\ out.lines = <<"idx:1: missing_order_id, negative_order_total">>

(***************************************************************************)
(* The stages as a caller sees them: one call of one stage on the caller's  *)
(* batch.  df is the caller's batch, before and after the call; args.given  *)
(* keeps what it was when the call was made.                                *)
(***************************************************************************)
\* the frame a stage works on.  no_copy: the stage keeps the caller's own
\* frame, and what it writes the caller sees
no_copy(b) == [frame |-> b, caller_sees |-> TRUE]

\* df = df.copy() (transform.py 61, 139, 163, 245, 268, 308, 358), and the
\* new frame drop_duplicates returns (41): a frame of its own
copy(b) == [frame |-> b, caller_sees |-> FALSE]

\* the caller's batch once the stage has written into the frame it works on
after_call(b, w, written) == IF w.caller_sees THEN written ELSE b

written_by(r, b) == IF r.raised THEN b ELSE r.value

\* lines 269-270 of calculate_clv: the two columns it rewrites in its frame
clv_frame(b, a) ==
    IF a.order_total_col \notin b.columns THEN b
    ELSE [b EXCEPT
            !.columns = b.columns \cup {"order_date"},
            !.rows = [i \in 1..NRows(b) |->
                        [c \in b.columns \cup {"order_date"} |->
                            CASE c = a.order_total_col ->
                                    fillna(<<to_numeric_cell(b.rows[i][c])>>, Whole(0))[1]
                              [] c = "order_date" ->
                                    IF c \in b.columns THEN to_datetime_cell(b.rows[i][c])
                                    ELSE NA
                              [] OTHER -> b.rows[i][c]]]]

Stages ==
    {"remove_duplicates", "impute_missing", "normalize_datetime", "normalize_currency",
     "calculate_order_total", "calculate_clv", "flag_fraud", "validate_orders"}

StageColumns ==
    {"order_id", "order_date", "customer_id", "currency", "total_amount",
     "price", "quantity", "order_total"}
StageDtypes ==
    [c \in StageColumns |-> IF c \in {"price", "quantity", "order_total"} THEN "float64"
                            ELSE "object"]
\* the rows an order can be at position i: the nullable fields varied, and
\* two rows whose amounts are unusable
StageRowsAt(i) ==
    [order_id : {OrderId(i)}, order_date : {PyNone, Str(Date1)},
     customer_id : {PyNone, Str(<<"c", "1">>)}, currency : {Str(<<"E", "U", "R">>)},
     total_amount : {Str(<<"2", "5">>)},
     price : {Whole(10)}, quantity : {NA, Whole(2)}, order_total : {Whole(1000)}]
    \cup
    [order_id : {OrderId(i)}, order_date : {Str(Date1)},
     customer_id : {Str(<<"c", "1">>)}, currency : {Str(<<"E", "U", "R">>)},
     total_amount : {Str(<<"a", "b", "c">>)},
     price : {Whole(10)}, quantity : {Whole(2)}, order_total : {NA, Whole(50)}]

RECURSIVE StageRecords(_)
StageRecords(n) ==
    IF n = 0 THEN {<<>>}
    ELSE {Append(rs, r) : rs \in StageRecords(n - 1), r \in StageRowsAt(n)}

WithoutColumn(b, col) ==
    [b EXCEPT !.columns = b.columns \ {col},
              !.dtypes = [c \in b.columns \ {col} |-> b.dtypes[c]],
              !.rows = [i \in 1..NRows(b) |-> [c \in b.columns \ {col} |-> b.rows[i][c]]]]

\* batches with every column, and the same without the price column
StageBatches(n) ==
    LET full == {[columns |-> StageColumns, dtypes |-> StageDtypes, date_tz |-> "naive",
                  rows |-> rs] : rs \in UNION {StageRecords(m) : m \in 0..n}}
    IN  full \cup {WithoutColumn(b, "price") : b \in full}

DedupStageArgs == [subset |-> Some({"customer_id"}), keep |-> "first"]
ImputeStageArgs ==
    [numeric_strategy |-> "median", categorical_strategy |-> "mode",
     datetime_strategy |-> "ffill", fill_values |-> None]
CurrencyStageArgs ==
    [amount_col |-> "total_amount", currency_col |-> Some("currency"),
     rate_map |-> Some(Str(<<"E", "U", "R">>) :> Rat(11, 10)),
     target_currency |-> Str(<<"U", "S", "D">>)]
ClvStageArgs == [customer_id_col |-> "customer_id", order_total_col |-> "order_total"]
FraudStageArgs == [high_value_threshold |-> Whole(1000), suspicious_email_domains |-> None]
ValidateStageArgs == [required_fields |-> None, allowed_statuses |-> None]

InitStages ==
    /\ pc \in Stages
    /\ df \in StageBatches(MaxQualityRows)
    /\ args = [fn |-> pc, given |-> df]
    /\ out = NoResult

\* the end of a call: the result, and the caller's batch after it
Finish(r, written) ==
    /\ out' = r
    /\ df' = after_call(df, copy(df), written)
    /\ pc' = IF r.raised THEN "raised" ELSE "returned"
    /\ UNCHANGED args

StageRemoveDuplicates ==
    /\ pc = "remove_duplicates" /\ args.fn = pc
    /\ LET r == remove_duplicates(df, DedupStageArgs.subset, DedupStageArgs.keep)
       IN  Finish(r, df)

StageImputeMissing ==
    /\ pc = "impute_missing" /\ args.fn = pc
    /\ LET r == impute_missing(df, ImputeStageArgs) IN Finish(r, written_by(r, df))

StageNormalizeDatetime ==
    /\ pc = "normalize_datetime" /\ args.fn = pc
    /\ LET r == [raised |-> FALSE, pending |-> FALSE,
                 value |-> normalize_datetime(df, {"order_date"}, Some("UTC"))]
       IN  Finish(r, written_by(r, df))

StageNormalizeCurrency ==
    /\ pc = "normalize_currency" /\ args.fn = pc
    /\ LET r == normalize_currency(df, CurrencyStageArgs, NoResponse)
       IN  Finish(r, written_by(r, df))

StageCalculateOrderTotal ==
    /\ pc = "calculate_order_total" /\ args.fn = pc
    /\ LET r == calculate_order_total(df, DefaultTotalArgs) IN Finish(r, written_by(r, df))

StageCalculateClv ==
    /\ pc = "calculate_clv" /\ args.fn = pc
    /\ LET r == calculate_clv(df, ClvStageArgs) IN Finish(r, clv_frame(df, ClvStageArgs))

StageFlagFraud ==
    /\ pc = "flag_fraud" /\ args.fn = pc
    /\ LET r == flag_fraud(df, FraudStageArgs) IN Finish(r, written_by(r, df))

StageValidateOrders ==
    /\ pc = "validate_orders" /\ args.fn = pc
    /\ LET r == validate_orders(df, ValidateStageArgs) IN Finish(r, written_by(r, df))

NextStages ==
    \/ StageRemoveDuplicates
    \/ StageImputeMissing
    \/ StageNormalizeDatetime
    \/ StageNormalizeCurrency
    \/ StageCalculateOrderTotal
    \/ StageCalculateClv
    \/ StageFlagFraud
    \/ StageValidateOrders

SpecStages == InitStages /\ [][NextStages]_vars

StagesKeepingRows == Stages \ {"remove_duplicates", "calculate_clv"}

\* C17: every stage other than deduplication (impute_missing,
\* normalize_datetime, normalize_currency, calculate_order_total, flag_fraud,
\* validate_orders) returns one output row per input row, in the same order:
\* the n-th output row is the n-th input order, whatever issues or fraud
\* flag it carries.
C17_OneRowPerRow ==
    (Returned /\ args.fn \in StagesKeepingRows) =>
        /\ NRows(out.value) = NRows(args.given)
        /\ \A i \in 1..NRows(args.given) :
              out.value.rows[i]["order_id"] = args.given.rows[i]["order_id"]

C17_Witness ==
    /\ Returned /\ args.fn = "validate_orders"
    /\ NRows(args.given) = 2 /\ NRows(out.value) = 2
    /\ out.value.rows[1]["validation_issues"] = List(<<"missing_customer_id">>)
    /\ out.value.rows[2]["validation_issues"] = List(<<>>)
    /\ out.value.rows[2]["order_id"] = OrderId(2)

\* C18: no stage changes the batch it was given: after a call of any of the
\* eight stages, returned or raised, the caller's batch has the columns and
\* the cell values it had before the call.
C18_InputUnchanged ==
    pc \in {"returned", "raised"} =>
        /\ df.columns = args.given.columns
        /\ df.rows = args.given.rows

C18_Witness ==
    /\ Returned /\ args.fn = "impute_missing"
    /\ NRows(df) = 2
    /\ isna(df.rows[1]["quantity"]) /\ out.value.rows[1]["quantity"] = Whole(2)
    /\ df = args.given

(***************************************************************************)
(* The stage pipeline of run_transform (src/dags/etl_pipeline.py 293-305)   *)
(* with a rate map given, applied to a batch and then to its own output.    *)
(* df is the batch first handed in, out.df_orders the batch as the steps    *)
(* rebind it, out.first the output of the first application.                *)
(***************************************************************************)
\* lines 295-296
step_normalize_datetime(b) ==
    IF "order_date" \in b.columns THEN normalize_datetime(b, {"order_date"}, Some("UTC"))
    ELSE b

\* lines 297-299, the rate map passed in
step_normalize_currency(b, rate_map) ==
    IF "total_amount" \in b.columns
    THEN assign_order_total(
             normalize_currency(b, [CurrencyStageArgs EXCEPT !.rate_map = rate_map],
                                NoResponse).value)
    ELSE b

\* lines 300-301
step_order_total(b) ==
    IF "order_total" \in b.columns THEN [raised |-> FALSE, value |-> b]
    ELSE calculate_order_total(b, DefaultTotalArgs)

\* line 302
step_flag_fraud(b) == flag_fraud(b, FraudStageArgs).value

\* line 303
step_validate_orders(b) == validate_orders(b, ValidateStageArgs).value

PricedColumns == {"order_id", "order_date", "customer_id", "price", "quantity"}
PricedRowsAt(i) ==
    [order_id : {OrderId(i)}, order_date : {PyNone, Str(Date1)},
     customer_id : {Str(<<"c", "1">>)},
     price : {Whole(10), Str(<<"a", "b", "c">>)}, quantity : {NA, Whole(2)}]

RECURSIVE PricedRecords(_)
PricedRecords(n) ==
    IF n = 0 THEN {<<>>}
    ELSE {Append(rs, r) : rs \in PricedRecords(n - 1), r \in PricedRowsAt(n)}

\* order batches with a total amount and a currency, and order batches with
\* a price and a quantity instead
PipelineBatches(n) ==
    {[columns |-> OrderColumns, date_tz |-> "naive", rows |-> rs] :
        rs \in UNION {OrderRecords(m) : m \in 1..n}}
    \cup
    {[columns |-> PricedColumns, date_tz |-> "naive", rows |-> rs] :
        rs \in UNION {PricedRecords(m) : m \in 1..n}}

InitPipeline ==
    /\ pc = "normalize_datetime"
    /\ df \in PipelineBatches(MaxCurrencyRows)
    /\ args \in [fn : {"pipeline"},
                 rate_map : {Some(Str(<<"E", "U", "R">>) :> Rat(11, 10)),
                             Some(Str(<<"E", "U", "R">>) :> Rat(1, 2))}]
    /\ out = [raised |-> FALSE, pending |-> TRUE, df_orders |-> df, first |-> df, pass |-> 1]

PipeNormalizeDatetime ==
    /\ pc = "normalize_datetime" /\ args.fn = "pipeline"
    /\ out' = [out EXCEPT !.df_orders = step_normalize_datetime(@)]
    /\ pc' = "normalize_currency"
    /\ UNCHANGED <<df, args>>

PipeNormalizeCurrency ==
    /\ pc = "normalize_currency" /\ args.fn = "pipeline"
    /\ out' = [out EXCEPT !.df_orders = step_normalize_currency(@, args.rate_map)]
    /\ pc' = "calculate_order_total"
    /\ UNCHANGED <<df, args>>

PipeOrderTotal ==
    /\ pc = "calculate_order_total" /\ args.fn = "pipeline"
    /\ LET r == step_order_total(out.df_orders)
       IN  IF r.raised
           THEN out' = [out EXCEPT !.raised = TRUE] /\ pc' = "raised"
           ELSE out' = [out EXCEPT !.df_orders = r.value] /\ pc' = "flag_fraud"
    /\ UNCHANGED <<df, args>>

PipeFlagFraud ==
    /\ pc = "flag_fraud" /\ args.fn = "pipeline"
    /\ out' = [out EXCEPT !.df_orders = step_flag_fraud(@)]
    /\ pc' = "validate_orders"
    /\ UNCHANGED <<df, args>>

\* the last stage; its output is handed to the first stage once more
PipeValidateOrders ==
    /\ pc = "validate_orders" /\ args.fn = "pipeline"
    /\ LET result == step_validate_orders(out.df_orders)
       IN  IF out.pass = 1
           THEN /\ out' = [out EXCEPT !.df_orders = result, !.first = result, !.pass = 2,
                                      !.pending = FALSE]
                /\ pc' = "normalize_datetime"
           ELSE /\ out' = [out EXCEPT !.df_orders = result]
                /\ pc' = "done"
    /\ UNCHANGED <<df, args>>

NextPipeline ==
    \/ PipeNormalizeDatetime
    \/ PipeNormalizeCurrency
    \/ PipeOrderTotal
    \/ PipeFlagFraud
    \/ PipeValidateOrders

SpecPipeline == InitPipeline /\ [][NextPipeline]_vars

\* C19: the stage pipeline is idempotent: applying the stages in pipeline
\* order (datetime normalization, currency normalization with a fixed rate
\* map, order-total derivation, fraud flagging, validation) to the output of
\* a previous application gives a batch identical to that output.
C19_PipelineIdempotent ==
    /\ pc # "raised"
    /\ pc = "done" => out.df_orders = out.first

C19_Witness ==
    /\ pc = "done"
    /\ args.rate_map.v[Str(<<"E", "U", "R">>)] = Rat(11, 10)
    /\ NRows(df) = 2
    /\ "total_amount" \in df.columns
    /\ df.rows[1]["total_amount"] = Whole(25) /\ df.rows[1]["currency"] = Str(<<"E", "U", "R">>)
    /\ df.rows[1]["order_date"] = Str(Date1) /\ isna(df.rows[2]["customer_id"])
    /\ out.first.date_tz = "UTC"
    /\ out.first.rows[1]["order_date"] = Ts(18262)
    /\ out.first.rows[1]["order_total"] = Rat(55, 2)
    /\ out.first.rows[2]["validation_issues"].l # <<>>
    /\ out.df_orders = out.first

(***************************************************************************)
(* run_transform: the staged files and the per-source parsers              *)
(* (src/dags/etl_pipeline.py 133-290)                                      *)
(***************************************************************************)
\* a JSON object: the cell of a dict, keys to cells
Map(m) == [k |-> "map", m |-> m]
EmptyDict == [key \in {} |-> PyNone]

\* x or y, x and y: Python hands back one of the operands
py_or(x, y) == IF truthy(x) THEN x ELSE y
py_and(x, y) == IF truthy(x) THEN y ELSE x

\* d.get(key, default)
dict_get_default(d, key, default) == IF key \in DOMAIN d THEN d[key] ELSE default

\* value.get(key) where value is a cell: only a dict has .get
has_get(c) == c.k = "map"
cell_get(c, key) == dict_get(c.m, key)

\* len(value) exists for lists, texts and dicts
has_len(c) == c.k \in {"list", "str", "map"}
len(c) ==
    CASE c.k = "list" -> Len(c.l)
      [] c.k = "str"  -> Len(c.s)
      [] c.k = "map"  -> Cardinality(DOMAIN c.m)

\* f"{value}" and str(value)
fstring(prefix, c) == Str(prefix \o str(c))

\* sum(float(s.get("price", 0) or 0) for s in shipping_lines), None when
\* anything in it raises
RECURSIVE shipping_sum(_)
shipping_sum(lines) ==
    IF lines = <<>> THEN Whole(0)
    ELSE LET s == Head(lines)
             rest == shipping_sum(Tail(lines))
             price == IF has_get(s)
                      THEN float_of(py_or(dict_get_default(s.m, "price", Whole(0)), Whole(0)))
                      ELSE NA
         IN  IF price = NA \/ rest = PyNone THEN PyNone ELSE RAdd(price, rest)

\* the items of a payload: the payload itself when it is a list, else the
\* first truthy of two of its keys, else []; raises on anything that has no
\* .get or that a for loop cannot walk as dicts
payload_items(payload, key1, key2) ==
    IF payload.k = "list" THEN [raised |-> FALSE, items |-> payload.l]
    ELSE IF ~has_get(payload) THEN [raised |-> TRUE, items |-> <<>>]
    ELSE LET v == py_or(py_or(cell_get(payload, key1), cell_get(payload, key2)), List(<<>>))
         IN  IF v.k = "list" THEN [raised |-> FALSE, items |-> v.l]
             ELSE [raised |-> TRUE, items |-> <<>>]

\* _parse_shopify, one item: does building its order raise?
shopify_item_raises(c) ==
    \/ ~has_get(c)
    \/ /\ ~truthy(cell_get(c, "total_price"))
       /\ ~truthy(cell_get(c, "total"))
       /\ truthy(cell_get(c, "current_total_price"))
       /\ ~has_get(cell_get(c, "current_total_price"))
    \/ truthy(cell_get(c, "customer")) /\ ~has_get(cell_get(c, "customer"))
    \/ truthy(cell_get(c, "line_items")) /\ ~has_len(cell_get(c, "line_items"))

\* the mutant of customer_chain: the item's own customer_id goes first
customer_chain_explicit_first(nested, explicit, pseudo) == py_or(py_or(explicit, nested), pseudo)
\* cust_id: the id of the customer object, or the item's customer_id, or
\* the email pseudo-id
customer_chain(nested, explicit, pseudo) == py_or(py_or(nested, explicit), pseudo)

\* _parse_shopify, one item: the order it builds
shopify_order(c) ==
    LET it == c.m
        ctp == dict_get(it, "current_total_price")
        total == py_or(py_or(dict_get(it, "total_price"), dict_get(it, "total")),
                       IF truthy(ctp) THEN cell_get(ctp, "amount") ELSE ctp)
        lines == dict_get(it, "shipping_lines")
        ship == IF lines.k = "list" /\ Len(lines.l) > 0 THEN shipping_sum(lines.l) ELSE PyNone
        customer_obj == py_or(dict_get(it, "customer"), Map(EmptyDict))
        email == dict_get(it, "email")
        cust_id == customer_chain(cell_get(customer_obj, "id"), dict_get(it, "customer_id"),
                                  IF truthy(email) THEN fstring(<<"e", "m", "a", "i", "l", ":">>, email) ELSE email)
    IN  [order_id |-> Str(str(py_or(py_or(py_or(dict_get(it, "id"), dict_get(it, "order_number")),
                                          dict_get(it, "name")), dict_get(it, "number")))),
         order_date |-> py_or(py_or(dict_get(it, "created_at"), dict_get(it, "date_created")),
                              dict_get(it, "created")),
         customer_id |-> cust_id,
         currency |-> dict_get(it, "currency"),
         total_amount |-> total,
         subtotal |-> py_or(dict_get(it, "subtotal_price"), dict_get(it, "subtotal")),
         tax_amount |-> py_or(dict_get(it, "total_tax"), dict_get(it, "tax")),
         shipping_amount |-> py_or(py_or(ship, dict_get(it, "shipping_total")),
                                   dict_get(it, "shipping")),
         item_count |-> Whole(len(py_or(dict_get(it, "line_items"), List(<<>>)))),
         shipping_address |-> py_or(dict_get(it, "shipping_address"), Map(EmptyDict)),
         billing_address |-> py_or(dict_get(it, "billing_address"), Map(EmptyDict)),
         line_items |-> py_or(dict_get(it, "line_items"), List(<<>>)),
         raw_payload |-> c]

\* _parse_shopify: every order, or nothing when one item raises
_parse_shopify(payload) ==
    LET p == payload_items(payload, "orders", "data")
    IN  IF p.raised \/ \E i \in 1..Len(p.items) : shopify_item_raises(p.items[i])
        THEN [raised |-> TRUE, orders |-> <<>>]
        ELSE [raised |-> FALSE, orders |-> [i \in 1..Len(p.items) |-> shopify_order(p.items[i])]]

\* the customer record the Shopify branch appends for a parsed order
shopify_customer(order) ==
    LET raw == order.raw_payload
        customer == cell_get(raw, "customer")
    IN  [customer_id |-> py_or(order.customer_id, fstring(<<"g", "u", "e", "s", "t", "_">>, order.order_id)),
         email |-> py_or(cell_get(raw, "email"), PyNone),
         name |-> IF customer.k = "map" THEN cell_get(customer, "first_name") ELSE PyNone,
         created_at |-> order.order_date,
         last_order_id |-> order.order_id,
         total_lifetime_value |-> PyNone,
         metadata |-> Map(EmptyDict)]

\* two decimal digits of a number below 100
TwoDigits(n) == <<Digits[(n \div 10) + 1], Digits[(n % 10) + 1]>>

\* datetime.utcfromtimestamp(int(created)).isoformat() for a moment of
\* January 1970 (the moments the model draws)
utc_isoformat(seconds) ==
    LET day == seconds \div 86400
        rest == seconds % 86400
    IN  Str(<<"1", "9", "7", "0", "-", "0", "1", "-">> \o TwoDigits(day + 1) \o <<"T">> \o TwoDigits(rest \div 3600)
            \o <<":">> \o TwoDigits((rest % 3600) \div 60) \o <<":">> \o TwoDigits(rest % 60))

\* _parse_stripe, one item: does building its transaction raise?
stripe_item_raises(c) ==
    \/ ~has_get(c)
    \/ "metadata" \in DOMAIN c.m /\ ~has_get(c.m["metadata"])

\* _parse_stripe, one item: the transaction it builds
stripe_tx(c) ==
    LET it == c.m
        amt == dict_get(it, "amount")
        amount_val == IF amt = PyNone \/ float_of(amt) = NA THEN PyNone
                      ELSE RDivInt(float_of(amt), 100)
        created == dict_get(it, "created")
        created_iso == IF created.k = "num" THEN utc_isoformat(created.n \div created.d)
                       ELSE IF created.k = "bool" THEN utc_isoformat(IF created.v THEN 1 ELSE 0)
                       ELSE py_or(dict_get(it, "created_at"), created)
        metadata == dict_get_default(it, "metadata", Map(EmptyDict))
    IN  [transaction_id |-> py_or(dict_get(it, "id"), dict_get(it, "balance_transaction")),
         transaction_date |-> created_iso,
         order_id |-> py_or(cell_get(metadata, "order_id"), dict_get(it, "invoice")),
         customer_id |-> py_or(dict_get(it, "customer"), cell_get(metadata, "customer_id")),
         payment_provider |-> Str(<<"s", "t", "r", "i", "p", "e">>),
         amount |-> amount_val,
         currency |-> dict_get(it, "currency"),
         status |-> py_or(dict_get(it, "status"),
                          IF truthy(dict_get(it, "paid")) THEN Str(<<"p", "a", "i", "d">>) ELSE PyNone),
         raw_payload |-> c]

\* _parse_stripe: every transaction, or nothing when one item raises
_parse_stripe(payload) ==
    LET p == payload_items(payload, "data", "charges")
    IN  IF p.raised \/ \E i \in 1..Len(p.items) : stripe_item_raises(p.items[i])
        THEN [raised |-> TRUE, transactions |-> <<>>]
        ELSE [raised |-> FALSE,
              transactions |-> [i \in 1..Len(p.items) |-> stripe_tx(p.items[i])]]

\* the WooCommerce branch, one item: does building its order raise?  The
\* billing object is looked into only when the item has no customer_id
woocommerce_order_raises(c) ==
    \/ ~has_get(c)
    \/ /\ ~truthy(cell_get(c, "customer_id"))
       /\ truthy(cell_get(c, "billing")) /\ ~has_get(cell_get(c, "billing"))
    \/ truthy(cell_get(c, "line_items")) /\ ~has_len(cell_get(c, "line_items"))

\* the WooCommerce branch, one item: does it raise, before its order is
\* appended or after that, while its customer record is built?
woocommerce_item_raises(c) ==
    \/ woocommerce_order_raises(c)
    \/ truthy(cell_get(c, "billing")) /\ ~has_get(cell_get(c, "billing"))

\* x and x.get(key)
and_get(x, key) == IF truthy(x) THEN cell_get(x, key) ELSE x

\* the WooCommerce branch, one item: the order it builds
woocommerce_order(c) ==
    LET it == c.m
    IN  [order_id |-> py_or(py_or(dict_get(it, "id"), dict_get(it, "order_id")),
                            Str(str(dict_get(it, "number")))),
         order_date |-> py_or(dict_get(it, "date_created"), dict_get(it, "created_at")),
         customer_id |-> py_or(dict_get(it, "customer_id"),
                               and_get(dict_get(it, "billing"), "email")),
         currency |-> py_or(dict_get(it, "currency"), dict_get(it, "currency_code")),
         total_amount |-> py_or(dict_get(it, "total"), dict_get(it, "total_price")),
         subtotal |-> dict_get(it, "subtotal"),
         tax_amount |-> py_or(dict_get(it, "total_tax"), dict_get(it, "tax")),
         shipping_amount |-> py_or(dict_get(it, "shipping_total"), dict_get(it, "shipping")),
         item_count |-> Whole(len(py_or(dict_get(it, "line_items"), List(<<>>)))),
         shipping_address |-> py_or(dict_get(it, "shipping"), Map(EmptyDict)),
         billing_address |-> py_or(dict_get(it, "billing"), Map(EmptyDict)),
         line_items |-> py_or(dict_get(it, "line_items"), List(<<>>)),
         raw_payload |-> c]

\* the customer record the WooCommerce branch appends next to the order
woocommerce_customer(c, order) ==
    [customer_id |-> py_or(order.customer_id, fstring(<<"g", "u", "e", "s", "t", "_">>, order.order_id)),
     email |-> and_get(dict_get(c.m, "billing"), "email"),
     name |-> and_get(dict_get(c.m, "billing"), "name"),
     created_at |-> order.order_date,
     last_order_id |-> order.order_id,
     total_lifetime_value |-> PyNone,
     metadata |-> Map(EmptyDict)]

\* the PayPal branch, one item: does it raise before it is appended?
paypal_item_raises(c) ==
    \/ ~has_get(c)
    \/ truthy(cell_get(c, "payer")) /\ ~has_get(cell_get(c, "payer"))
    \/ truthy(cell_get(c, "amount")) /\ ~has_get(cell_get(c, "amount"))
    \/ /\ ~truthy(cell_get(c, "amount"))
       /\ truthy(cell_get(c, "gross_amount"))
       /\ ~has_get(cell_get(c, "gross_amount"))

\* the PayPal branch, one item: the transaction it builds
paypal_tx(c) ==
    LET it == c.m
    IN  [transaction_id |-> py_or(dict_get(it, "transaction_id"), dict_get(it, "id")),
         transaction_date |-> py_or(py_or(dict_get(it, "transaction_initiation_date"),
                                          dict_get(it, "transaction_updated_date")),
                                    dict_get(it, "create_time")),
         order_id |-> PyNone,
         customer_id |-> py_or(and_get(dict_get(it, "payer"), "payer_id"), PyNone),
         payment_provider |-> Str(<<"p", "a", "y", "p", "a", "l">>),
         amount |-> py_or(dict_get(it, "amount"), and_get(dict_get(it, "gross_amount"), "value")),
         currency |-> py_or(and_get(dict_get(it, "amount"), "currency"), dict_get(it, "currency")),
         status |-> dict_get(it, "status"),
         raw_payload |-> c]

\* the items a loop walks before one of them raises
before_raise(items, bad) ==
    LET stop == IF bad = {} THEN Len(items) + 1
                ELSE CHOOSE i \in bad : \A j \in bad : i <= j
    IN  SubSeq(items, 1, stop - 1)

\* sub in text, text.endswith(suffix)
Contains(text, sub) ==
    \E i \in 1..(Len(text) - Len(sub) + 1) : SubSeq(text, i, i + Len(sub) - 1) = sub
EndsWith(text, suffix) ==
    Len(text) >= Len(suffix) /\ SubSeq(text, Len(text) - Len(suffix) + 1, Len(text)) = suffix

\* what json.load meets in a file that holds no JSON
NotJson == [k |-> "invalid"]

\* files = [... for p in os.listdir(STAGING_DIR) if p.endswith((".json", ".csv"))]
RECURSIVE staged_files(_)
staged_files(listing) ==
    IF listing = <<>> THEN <<>>
    ELSE LET p == Head(listing)
         IN  (IF EndsWith(p.name, <<".", "j", "s", "o", "n">>) \/ EndsWith(p.name, <<".", "c", "s", "v">>) THEN <<p>> ELSE <<>>)
             \o staged_files(Tail(listing))

\* the branch the lower-cased base name selects
source_of(path) ==
    LET name == lower(path)
    IN  IF Contains(name, <<"s", "h", "o", "p", "i", "f", "y">>) THEN "shopify"
        ELSE IF Contains(name, <<"s", "t", "r", "i", "p", "e">>) THEN "stripe"
        ELSE IF Contains(name, <<"w", "o", "o", "c", "o", "m", "m", "e", "r", "c", "e">>) \/ Contains(name, <<"o", "r", "d", "e", "r", "s">>) THEN "woocommerce"
        ELSE IF Contains(name, <<"p", "a", "y", "p", "a", "l">>) \/ Contains(name, <<"t", "r", "a", "n", "s", "a", "c", "t", "i", "o", "n", "s">>) THEN "paypal"
        ELSE "none"

Nothing == [raised |-> FALSE, orders |-> <<>>, customers |-> <<>>, transactions |-> <<>>]

\* the body of "for path in files": what one file adds to the lists, and
\* whether the except clause logged a failure
process_file(file) ==
    IF ~EndsWith(file.name, <<".", "j", "s", "o", "n">>) THEN Nothing
    ELSE IF file.content = NotJson THEN [Nothing EXCEPT !.raised = TRUE]
    ELSE LET payload == file.content
             source == source_of(file.name)
         IN  CASE source = "shopify" ->
                    LET parsed == _parse_shopify(payload)
                    IN  [raised |-> parsed.raised,
                         orders |-> parsed.orders,
                         customers |-> [i \in 1..Len(parsed.orders) |->
                                            shopify_customer(parsed.orders[i])],
                         transactions |-> <<>>]
               [] source = "stripe" ->
                    LET parsed == _parse_stripe(payload)
                    IN  [raised |-> parsed.raised, orders |-> <<>>, customers |-> <<>>,
                         transactions |-> parsed.transactions]
               [] source = "woocommerce" ->
                    LET p == payload_items(payload, "orders", "data")
                        done == before_raise(p.items, {i \in 1..Len(p.items) :
                                                       woocommerce_item_raises(p.items[i])})
                        last == IF Len(done) < Len(p.items)
                                   /\ ~woocommerce_order_raises(p.items[Len(done) + 1])
                                THEN <<woocommerce_order(p.items[Len(done) + 1])>> ELSE <<>>
                    IN  [raised |-> p.raised \/ Len(done) < Len(p.items),
                         orders |-> [i \in 1..Len(done) |-> woocommerce_order(done[i])] \o last,
                         customers |-> [i \in 1..Len(done) |->
                                            woocommerce_customer(done[i], woocommerce_order(done[i]))],
                         transactions |-> <<>>]
               [] source = "paypal" ->
                    LET p == payload_items(payload, "transactions", "data")
                        done == before_raise(p.items, {i \in 1..Len(p.items) :
                                                       paypal_item_raises(p.items[i])})
                    IN  [raised |-> p.raised \/ Len(done) < Len(p.items),
                         orders |-> <<>>, customers |-> <<>>,
                         transactions |-> [i \in 1..Len(done) |-> paypal_tx(done[i])]]
               [] OTHER -> Nothing

\* items of staged Shopify files: ids and customers present, absent, falsy
ShopifyOrder1 ==
    Map([id |-> Whole(7), created_at |-> Str(Date1), currency |-> EUR,
          total_price |-> Str(<<"2", "5">>), email |-> OkEmail,
          customer |-> Map([id |-> Whole(5), first_name |-> Str(<<"A", "n", "n">>)])])
ShopifyTextCustomer == Map([id |-> Whole(7), customer |-> Customer1])
ShopifyFreeOrder == Map([id |-> Whole(6), total_price |-> Whole(0), total |-> Str(<<"2", "5">>)])
ShopifyTwoCustomerIds ==
    Map([id |-> Whole(3), customer_id |-> Customer1, customer |-> Map([id |-> Whole(5)]),
         email |-> OkEmail])
ShopifyBadShippingLine ==
    Map([id |-> Whole(1), shipping_total |-> Str(<<"9">>),
         shipping_lines |-> List(<<Map([price |-> Str(<<"5">>)]), Map([price |-> Str(<<"a", "b", "c">>)])>>)])
ShopifyFreeShipping ==
    Map([id |-> Whole(2), shipping_total |-> Str(<<"9">>),
         shipping_lines |-> List(<<Map([price |-> Str(<<"0">>)])>>)])
ShopifyItems ==
    {ShopifyOrder1, ShopifyTextCustomer, ShopifyFreeOrder, ShopifyTwoCustomerIds,
     ShopifyBadShippingLine, ShopifyFreeShipping,
     Map([name |-> Str(<<"#", "1">>), email |-> OkEmail]),
     Map(EmptyDict),
     Map([id |-> Whole(0), order_number |-> Whole(12), customer_id |-> Customer1]),
     Map([id |-> Whole(8), customer |-> PyNone, line_items |-> List(<<Map(EmptyDict)>>),
          shipping_lines |-> List(<<Map([price |-> Str(<<"5">>)]), Map(EmptyDict)>>)])}

\* items of staged Stripe files
StripeCharge1 ==
    Map([id |-> Str(<<"c", "h", "_", "1">>), amount |-> Whole(1250), created |-> Whole(86461),
          currency |-> Str(<<"e", "u", "r">>), paid |-> Bool(TRUE),
          metadata |-> Map([order_id |-> Order1])])
StripeNullMetadata == Map([id |-> Str(<<"c", "h", "_", "2">>), metadata |-> PyNone])
StripeItems ==
    {StripeCharge1, StripeNullMetadata,
     Map([balance_transaction |-> Str(<<"t", "x", "n", "_", "1">>), amount |-> Str(<<"a", "b", "c">>),
          customer |-> Customer1]),
     Map([amount |-> Whole(100)])}

\* items of staged WooCommerce files
WooCommerceOrder1 ==
    Map([id |-> Whole(9), date_created |-> Str(Date1), customer_id |-> Whole(3),
          total |-> Str(<<"1", "0">>),
          billing |-> Map([email |-> OkEmail, name |-> Str(<<"A", "n", "n">>)])])
WooCommerceTextBilling == Map([id |-> Whole(9), billing |-> Str(<<"s", "t", "r", "e", "e", "t">>)])
WooCommerceBlankTotal ==
    Map([id |-> Whole(4), total |-> EmptyText, total_price |-> Str(<<"1", "0">>), currency_code |-> EUR])
WooCommerceTextBillingOfCustomer ==
    Map([id |-> Whole(5), customer_id |-> Whole(3), billing |-> Str(<<"s", "t", "r", "e", "e", "t">>)])
WooCommerceGuest ==
    Map([id |-> Whole(7), date_created |-> Str(Date1), customer_id |-> Whole(0),
          total |-> Str(<<"1", "0">>), currency |-> USD, billing |-> Map([email |-> EmptyText])])
WooCommerceItems ==
    {WooCommerceOrder1, WooCommerceTextBilling, WooCommerceBlankTotal,
     WooCommerceTextBillingOfCustomer, WooCommerceGuest,
     Map([number |-> Whole(12), billing |-> Map([email |-> OkEmail])]),
     Map(EmptyDict)}

\* items of staged PayPal files
PayPalTransaction1 ==
    Map([transaction_id |-> Str(<<"p", "1">>),
          amount |-> Map([value |-> Str(<<"1", "0">>), currency |-> EUR]),
          payer |-> Map([payer_id |-> Customer1])])
PayPalTextAmount == Map([transaction_id |-> Str(<<"p", "3">>), amount |-> Str(<<"1", "0", ".", "0", "0">>)])
PayPalItems ==
    {PayPalTransaction1, PayPalTextAmount,
     Map([id |-> Str(<<"p", "2">>), gross_amount |-> Map([value |-> Str(<<"1", "0">>)]),
          currency |-> EUR]),
     Map([status |-> Str(<<"S">>)])}

\* the files a staging directory may hold: one item each, a good item next
\* to a raising one, payloads wrapped in an object, and files that hold no
\* JSON, carry no source name or have another extension
Named(name, contents) == {[name |-> name, content |-> c] : c \in contents}
StagedCatalogue ==
    Named(<<"s", "h", "o", "p", "i", "f", "y", ".", "j", "s", "o", "n">>,
          {List(<<x>>) : x \in ShopifyItems}
          \cup {List(<<ShopifyOrder1, ShopifyTextCustomer>>),
                Map([orders |-> List(<<ShopifyOrder1>>)]),
                Map([orders |-> List(<<>>), data |-> List(<<ShopifyOrder1>>)]),
                Map([orders |-> Customer1]), NotJson})
    \cup Named(<<"s", "t", "r", "i", "p", "e", ".", "j", "s", "o", "n">>,
          {List(<<x>>) : x \in StripeItems}
          \cup {List(<<StripeCharge1, StripeNullMetadata>>),
                Map([data |-> List(<<StripeCharge1>>)]),
                Map([charges |-> List(<<StripeCharge1>>)])})
    \cup Named(<<"w", "o", "o", "c", "o", "m", "m", "e", "r", "c", "e", ".", "j", "s", "o", "n">>,
          {List(<<x>>) : x \in WooCommerceItems}
          \cup {List(<<WooCommerceOrder1, WooCommerceTextBilling>>),
                List(<<WooCommerceTextBilling, WooCommerceOrder1>>),
                Map([orders |-> List(<<WooCommerceOrder1>>)])})
    \cup Named(<<"p", "a", "y", "p", "a", "l", ".", "j", "s", "o", "n">>,
          {List(<<x>>) : x \in PayPalItems}
          \cup {List(<<PayPalTransaction1, PayPalTextAmount>>),
                Map([transactions |-> List(<<PayPalTransaction1>>)]),
                Whole(1)})
    \cup Named(<<"o", "r", "d", "e", "r", "s", ".", "j", "s", "o", "n">>, {List(<<WooCommerceOrder1>>)})
    \cup Named(<<"t", "r", "a", "n", "s", "a", "c", "t", "i", "o", "n", "s", ".", "j", "s", "o", "n">>, {List(<<PayPalTransaction1>>)})
    \cup Named(<<"S", "h", "o", "p", "i", "f", "y", "_", "O", "r", "d", "e", "r", "s", ".", "j", "s", "o", "n">>, {List(<<ShopifyOrder1>>)})
    \cup Named(<<"s", "h", "o", "p", "i", "f", "y", ".", "J", "S", "O", "N">>, {List(<<ShopifyOrder1>>)})
    \cup Named(<<"s", "t", "r", "i", "p", "e", ".", "c", "s", "v">>, {NotJson})
    \cup Named(<<"e", "x", "p", "o", "r", "t", ".", "j", "s", "o", "n">>, {List(<<ShopifyOrder1>>)})

\* a directory listing of n entries at most; the position leads each name,
\* so that no two entries share one
RECURSIVE Listings(_)
Listings(n) ==
    IF n = 0 THEN {<<>>}
    ELSE LET shorter == Listings(n - 1)
         IN  shorter \cup
             {Append(l, [f EXCEPT !.name = <<Digits[n + 1]>> \o @]) :
                  l \in {t \in shorter : Len(t) = n - 1}, f \in StagedCatalogue}

InitNormalize ==
    \E listing \in Listings(MaxFiles) :
        /\ pc = "files"
        /\ df = listing
        /\ args = [files |-> staged_files(listing)]
        /\ out = [next |-> 1, failed |-> {}, orders |-> <<>>, customers |-> <<>>,
                  transactions |-> <<>>]

\* one turn of "for path in files"
ProcessStagedFile ==
    /\ pc = "files"
    /\ out.next <= Len(args.files)
    /\ LET file == args.files[out.next]
           r == process_file(file)
       IN  out' = [next |-> out.next + 1,
                   failed |-> IF r.raised THEN out.failed \cup {file.name} ELSE out.failed,
                   orders |-> out.orders \o r.orders,
                   customers |-> out.customers \o r.customers,
                   transactions |-> out.transactions \o r.transactions]
    /\ UNCHANGED <<pc, df, args>>

\* the loop is over: the lists go on to the transforms
FilesDone ==
    /\ pc = "files"
    /\ out.next > Len(args.files)
    /\ pc' = "transforms"
    /\ UNCHANGED <<df, args, out>>

NextNormalize == ProcessStagedFile \/ FilesDone

SpecNormalize == InitNormalize /\ [][NextNormalize]_vars

\* C20: every order, customer and transaction record that schema
\* normalization produces carries a non-null identifying key (order_id,
\* customer_id, transaction_id), a synthesized one where the source had none
C20_KeysNonNull ==
    pc \in {"files", "transforms"} =>
        /\ \A i \in 1..Len(out.orders) : out.orders[i].order_id # PyNone
        /\ \A i \in 1..Len(out.customers) : out.customers[i].customer_id # PyNone
        /\ \A i \in 1..Len(out.transactions) : out.transactions[i].transaction_id # PyNone

\* orders and customers do carry a key, whatever the item: str() turns a
\* missing order id into a text, and guest_<order_id> stands in for a
\* missing customer
C20_OrdersAndCustomersKeyed ==
    pc \in {"files", "transforms"} =>
        /\ \A i \in 1..Len(out.orders) : truthy(out.orders[i].order_id)
        /\ \A i \in 1..Len(out.customers) : truthy(out.customers[i].customer_id)

(***************************************************************************)
(* run_ingest, the bookmarks file and the two tasks of the DAG             *)
(* (src/dags/etl_pipeline.py 65-130, 344-348; src/bookmarks.py)            *)
(***************************************************************************)
\* the sources in the order run_ingest walks them
Sources == <<"shopify", "woocommerce", "stripe", "paypal", "inventory">>

\* how a connector call ends: it staged data, the source had none, a request
\* came back with a status other than 200 (logged, then break or return), or
\* an exception left the connector
Fetched == "fetched"
NoData == "no_data"
FailedRequest == "failed_request"
ConnectorRaised == "raised"

\* ingest_inventory_db catches every exception itself; the other connectors
\* let those of the session and of resp.json() through
ConnectorOutcomes(source) ==
    IF source = "inventory" THEN {Fetched, NoData, FailedRequest}
    ELSE {Fetched, NoData, FailedRequest, ConnectorRaised}

\* int(last): of a number, or of a text of digits; raises on any other text
int_raises(c) ==
    ~(c.k = "num" \/ (c.k = "str" /\ strip(c.s) # <<>> /\ \A i \in DOMAIN strip(c.s) : IsDigit(strip(c.s)[i])))

\* bookmarks.get_bookmark(source)
get_bookmark(file, source) == dict_get(file, source)

\* bookmarks.write_bookmark(source, value)
write_bookmark(file, source, value) ==
    [s \in DOMAIN file \cup {source} |-> IF s = source THEN value ELSE file[s]]

\* the connector returned: run_ingest goes on to write_bookmark
written_after(outcome) == outcome # ConnectorRaised

\* one "if configured: try: ... except Exception" block of run_ingest
ingest_block(source, outcome, next) ==
    /\ pc = source
    /\ pc' = next
    /\ IF source \notin args.configured
       THEN UNCHANGED <<df, out>>
       ELSE LET since_raises == /\ source = "shopify"
                                /\ truthy(get_bookmark(df, "shopify"))
                                /\ int_raises(get_bookmark(df, "shopify"))
                result == IF since_raises THEN ConnectorRaised ELSE outcome
            IN  /\ out' = [out EXCEPT !.outcome = write_bookmark(@, source, result),
                                      !.run_sources = IF written_after(result)
                                                      THEN Append(@, source) ELSE @]
                /\ df' = IF written_after(result)
                         THEN write_bookmark(df, source, utc_isoformat(args.now))
                         ELSE df
    /\ UNCHANGED args

IngestShopify ==
    \E outcome \in ConnectorOutcomes("shopify") : ingest_block("shopify", outcome, "woocommerce")
IngestWooCommerce ==
    \E outcome \in ConnectorOutcomes("woocommerce") : ingest_block("woocommerce", outcome, "stripe")
IngestStripe ==
    \E outcome \in ConnectorOutcomes("stripe") : ingest_block("stripe", outcome, "paypal")
IngestPayPal ==
    \E outcome \in ConnectorOutcomes("paypal") : ingest_block("paypal", outcome, "inventory")
IngestInventory ==
    \E outcome \in ConnectorOutcomes("inventory") : ingest_block("inventory", outcome, "transform")

\* t_ingest >> t_transform: run_transform returns, or raises after its retries
TransformTask ==
    /\ pc = "transform"
    /\ \E ok \in BOOLEAN : out' = [out EXCEPT !.transform = IF ok THEN "succeeded" ELSE "failed"]
    /\ pc' = "run_done"
    /\ UNCHANGED <<df, args>>

\* the schedule starts the next run, later on the clock
NextRunStarts ==
    /\ pc = "run_done"
    /\ args.run < MaxRuns
    /\ pc' = "shopify"
    /\ args' = [args EXCEPT !.run = @ + 1, !.now = @ + 1, !.before = df]
    /\ out' = [outcome |-> EmptyDict, run_sources |-> <<>>, transform |-> "pending"]
    /\ UNCHANGED df

\* the bookmarks file before the first run: none yet, or a since_id put
\* there by hand
InitialBookmarks == {EmptyDict, [shopify |-> Whole(5)], [shopify |-> Str(<<"5">>)]}

InitBookmarks ==
    \E configured \in SUBSET Range(Sources), file \in InitialBookmarks :
        /\ pc = "shopify"
        /\ df = file
        /\ args = [configured |-> configured, run |-> 1, now |-> 1, before |-> file]
        /\ out = [outcome |-> EmptyDict, run_sources |-> <<>>, transform |-> "pending"]

NextBookmarks ==
    \/ IngestShopify \/ IngestWooCommerce \/ IngestStripe \/ IngestPayPal \/ IngestInventory
    \/ TransformTask \/ NextRunStarts

SpecBookmarks == InitBookmarks /\ [][NextBookmarks]_vars

BookmarkPositions == Range(Sources) \cup {"transform", "run_done"}
BookmarkWritten(s) == get_bookmark(df, s) # get_bookmark(args.before, s)

\* C21: within a run the bookmark of a source is written only after that
\* source's ingest and the transform/load of its data have succeeded; a
\* run whose connector fetched nothing because of a failed request, or
\* whose transform task fails, leaves the bookmark at its previous value
C21_BookmarkOnlyAfterSuccess ==
    pc \in BookmarkPositions =>
        \A s \in Range(Sources) :
            BookmarkWritten(s) =>
                /\ out.transform = "succeeded"
                /\ s \in DOMAIN out.outcome
                /\ out.outcome[s] \in {Fetched, NoData}

\* what does hold: an exception leaving the connector (or int(last)
\* raising before it) leaves the bookmark as it was
C21_BookmarkKeptWhenConnectorRaises ==
    pc \in BookmarkPositions =>
        \A s \in DOMAIN out.outcome : out.outcome[s] = ConnectorRaised => ~BookmarkWritten(s)

(***************************************************************************)
(* loader: _bulk_upsert and the upserts at the end of run_transform        *)
(* (src/loader.py 36-192; src/dags/etl_pipeline.py 316-323)                *)
(***************************************************************************)
\* json.dumps(value): the text that goes into a JSON column
json_dumps(c) == [k |-> "json", v |-> c]

\* the tuple upsert_customers appends for a customer
customer_row(c) ==
    [customer_id |-> dict_get(c, "customer_id"),
     email |-> dict_get(c, "email"),
     name |-> dict_get(c, "name"),
     created_at |-> dict_get(c, "created_at"),
     last_order_id |-> dict_get(c, "last_order_id"),
     total_lifetime_value |-> dict_get(c, "total_lifetime_value"),
     metadata |-> json_dumps(dict_get_default(c, "metadata", Map(EmptyDict)))]

\* the tuple upsert_orders appends for an order
order_row(o) ==
    [order_id |-> dict_get(o, "order_id"),
     order_date |-> dict_get(o, "order_date"),
     customer_id |-> dict_get(o, "customer_id"),
     currency |-> dict_get(o, "currency"),
     total_amount |-> dict_get(o, "total_amount"),
     subtotal |-> dict_get(o, "subtotal"),
     tax_amount |-> dict_get(o, "tax_amount"),
     shipping_amount |-> dict_get(o, "shipping_amount"),
     item_count |-> dict_get(o, "item_count"),
     shipping_address |-> json_dumps(py_or(dict_get(o, "shipping_address"), Map(EmptyDict))),
     billing_address |-> json_dumps(py_or(dict_get(o, "billing_address"), Map(EmptyDict))),
     line_items |-> json_dumps(py_or(dict_get(o, "line_items"), List(<<>>))),
     raw_payload |-> json_dumps(py_or(dict_get(o, "raw_payload"), Map(EmptyDict))),
     updated_at |-> py_or(dict_get(o, "updated_at"), dict_get(o, "order_date"))]

\* the tuple upsert_transactions appends for a transaction
transaction_row(t) ==
    [transaction_id |-> dict_get(t, "transaction_id"),
     transaction_date |-> dict_get(t, "transaction_date"),
     order_id |-> dict_get(t, "order_id"),
     customer_id |-> dict_get(t, "customer_id"),
     payment_provider |-> dict_get(t, "payment_provider"),
     amount |-> dict_get(t, "amount"),
     currency |-> dict_get(t, "currency"),
     status |-> dict_get(t, "status"),
     raw_payload |-> json_dumps(py_or(dict_get(t, "raw_payload"), Map(EmptyDict))),
     updated_at |-> py_or(dict_get(t, "updated_at"), dict_get(t, "transaction_date"))]

\* execute_values(..., page_size=1000): the statements one call sends
page_size == 1000
pages(rows) ==
    [p \in 1..((Len(rows) + page_size - 1) \div page_size) |->
        SubSeq(rows, (p - 1) * page_size + 1,
               IF p * page_size < Len(rows) THEN p * page_size ELSE Len(rows))]

\* INSERT ... ON CONFLICT (key) DO UPDATE refuses a statement that proposes
\* two rows with one key ("command cannot affect row a second time")
proposed_twice(rows, key) ==
    \E i, j \in 1..Len(rows) : i < j /\ rows[i][key] = rows[j][key]

\* a statement fails as a whole: on a key proposed twice, or on a null in
\* the primary key
statement_raises(rows, key) ==
    \/ proposed_twice(rows, key)
    \/ \E i \in 1..Len(rows) : isna(rows[i][key])

\* ON CONFLICT (key) DO UPDATE SET c = EXCLUDED.c for the other columns:
\* the table after one row
upsert_row(table, row, key) ==
    [k \in DOMAIN table \cup {row[key]} |-> IF k = row[key] THEN row ELSE table[k]]

RECURSIVE upsert_rows(_, _, _)
upsert_rows(table, rows, key) ==
    IF rows = <<>> THEN table
    ELSE upsert_rows(upsert_row(table, Head(rows), key), Tail(rows), key)

\* _bulk_upsert: every statement inside one transaction, committed at the
\* end; an exception leaves the table as it was
_bulk_upsert(table, rows, key) ==
    IF \E p \in DOMAIN pages(rows) : statement_raises(pages(rows)[p], key)
    THEN [raised |-> TRUE, table |-> table]
    ELSE [raised |-> FALSE, table |-> upsert_rows(table, rows, key)]

upsert_customers(table, customers) ==
    _bulk_upsert(table, [i \in 1..Len(customers) |-> customer_row(customers[i])], "customer_id")
upsert_orders(table, orders) ==
    _bulk_upsert(table, [i \in 1..Len(orders) |-> order_row(orders[i])], "order_id")
upsert_transactions(table, transactions) ==
    _bulk_upsert(table, [i \in 1..Len(transactions) |-> transaction_row(transactions[i])],
                 "transaction_id")

\* customer records as the file loop builds them, one per order
Order2 == Str(<<"o", "2">>)
CustomerRecords ==
    [customer_id : {Customer1, Customer2}, email : {PyNone, OkEmail}, name : {PyNone},
     created_at : {Str(Date1)}, last_order_id : {Order1, Order2},
     total_lifetime_value : {PyNone}, metadata : {Map(EmptyDict)}]
LoadedOrders ==
    [order_id : {Order1, Order2}, order_date : {Str(Date1)}, customer_id : {Customer1},
     total_amount : {Whole(10), Whole(20)}, line_items : {List(<<>>)}]
Transaction1 == Str(<<"t", "1">>)
LoadedTransactions ==
    [transaction_id : {Transaction1, PyNone}, transaction_date : {Str(Date1)},
     amount : {Whole(10), Whole(20)}, payment_provider : {Str(<<"s", "t", "r", "i", "p", "e">>)}]

\* the lists a run hands to the loader: one of them varies, next to fixed others
LoadBatches(n) ==
    {[customers |-> c, orders |-> <<>>, transactions |-> <<>>] : c \in SeqsUpTo(CustomerRecords, n)}
    \cup {[customers |-> <<>>, orders |-> o, transactions |-> <<>>] : o \in SeqsUpTo(LoadedOrders, n)}
    \cup {[customers |-> <<>>, orders |-> <<>>, transactions |-> t] :
              t \in SeqsUpTo(LoadedTransactions, n)}

\* the warehouse before the run: empty, or holding rows of an earlier run
EmptyWarehouse == [customers_dim |-> EmptyDict, orders_fact |-> EmptyDict,
                   transactions_fact |-> EmptyDict]
EarlierWarehouse ==
    [customers_dim |->
        upsert_row(EmptyDict,
                   customer_row([customer_id |-> Customer1, email |-> PyNone,
                                 last_order_id |-> Str(<<"o", "0">>)]), "customer_id"),
     orders_fact |->
        upsert_row(EmptyDict, order_row([order_id |-> Order1, total_amount |-> Whole(5)]),
                   "order_id"),
     transactions_fact |->
        upsert_row(EmptyDict, transaction_row([transaction_id |-> Transaction1,
                                               amount |-> Whole(5)]), "transaction_id")]

InitLoad ==
    \E batches \in LoadBatches(MaxLoadRows), warehouse \in {EmptyWarehouse, EarlierWarehouse} :
        /\ pc = "upsert_customers"
        /\ df = warehouse
        /\ args = batches
        /\ out = [raised |-> FALSE, pass |-> 1, first |-> warehouse, upserted |-> <<>>]

\* what an upsert call of run_transform leaves: "if batch:" skips an empty list
load_step(table, batch, r, next) ==
    /\ out.raised = FALSE
    /\ IF batch = <<>>
       THEN /\ pc' = next
            /\ UNCHANGED <<df, out>>
       ELSE /\ pc' = IF r.raised THEN "raised" ELSE next
            /\ df' = [df EXCEPT ![table] = r.table]
            /\ out' = [out EXCEPT !.raised = r.raised,
                                  !.upserted = IF r.raised THEN @ ELSE Append(@, table)]
    /\ UNCHANGED args

LoadCustomers ==
    /\ pc = "upsert_customers"
    /\ load_step("customers_dim", args.customers,
                 upsert_customers(df.customers_dim, args.customers), "upsert_orders")

\* products stays the empty list run_transform starts with: no upsert_products
LoadOrders ==
    /\ pc = "upsert_orders"
    /\ load_step("orders_fact", args.orders,
                 upsert_orders(df.orders_fact, args.orders), "upsert_transactions")

LoadTransactions ==
    /\ pc = "upsert_transactions"
    /\ load_step("transactions_fact", args.transactions,
                 upsert_transactions(df.transactions_fact, args.transactions), "loaded")

\* the same lists are handed to the loader once more
LoadAgain ==
    /\ pc = "loaded"
    /\ out.pass = 1
    /\ pc' = "upsert_customers"
    /\ out' = [out EXCEPT !.pass = 2, !.first = df, !.upserted = <<>>]
    /\ UNCHANGED <<df, args>>

NextLoad == LoadCustomers \/ LoadOrders \/ LoadTransactions \/ LoadAgain

SpecLoad == InitLoad /\ [][NextLoad]_vars

LoadPositions ==
    {"upsert_customers", "upsert_orders", "upsert_transactions", "loaded", "raised"}
\* the last record of a list with the given key
LastWith(batch, key, v) ==
    batch[CHOOSE i \in 1..Len(batch) :
              /\ batch[i][key] = v
              /\ \A j \in 1..Len(batch) : batch[j][key] = v => j <= i]
LatestWrites(table, batch, key) ==
    \A i \in 1..Len(batch) :
        /\ batch[i][key] \in DOMAIN table
        /\ \A c \in DOMAIN batch[i] \ {"metadata", "line_items"} :
               table[batch[i][key]][c] = LastWith(batch, key, batch[i][key])[c]
Loaded ==
    /\ LatestWrites(df.customers_dim, args.customers, "customer_id")
    /\ LatestWrites(df.orders_fact, args.orders, "order_id")
    /\ LatestWrites(df.transactions_fact, args.transactions, "transaction_id")

\* C22: for every batch run_transform hands to the loader, a customer batch
\* with several orders of one customer included, the upsert succeeds and
\* leaves one warehouse row per key holding the latest write, and loading
\* the same batch a second time leaves the warehouse unchanged
C22_IdempotentUpsert ==
    pc \in LoadPositions =>
        /\ pc # "raised"
        /\ pc = "loaded" => Loaded
        /\ pc = "loaded" /\ out.pass = 2 => df = out.first

DistinctKeys(batch, key) ==
    \A i, j \in 1..Len(batch) : i # j => batch[i][key] # batch[j][key]

\* what does hold: lists whose keys are non-null and all different load as
\* stated
C22_IdempotentUpsertDistinctKeys ==
    (/\ pc \in LoadPositions
     /\ DistinctKeys(args.customers, "customer_id")
     /\ DistinctKeys(args.orders, "order_id")
     /\ DistinctKeys(args.transactions, "transaction_id")
     /\ \A i \in 1..Len(args.transactions) : args.transactions[i].transaction_id # PyNone)
        => C22_IdempotentUpsert

\* the orders of a run over one staged file of the given source
OnlyFileIs(source) == Len(args.files) = 1 /\ source_of(args.files[1].name) = source

\* the value of the first key of a list that the item holds with a value
\* other than null; null when there is none
RECURSIVE FirstPresent(_, _)
FirstPresent(it, aliases) ==
    IF aliases = <<>> THEN PyNone
    ELSE IF Head(aliases) \in DOMAIN it /\ it[Head(aliases)] # PyNone THEN it[Head(aliases)]
    ELSE FirstPresent(it, Tail(aliases))

\* the same with the nested current_total_price.amount as the last alias
FirstPresentTotal(it) ==
    LET flat == FirstPresent(it, <<"total_price", "total">>)
        nested == FirstPresent(it, <<"current_total_price">>)
    IN  IF flat # PyNone THEN flat
        ELSE IF nested.k = "map" THEN FirstPresent(nested.m, <<"amount">>) ELSE PyNone

ShopifyAliases ==
    [subtotal |-> <<"subtotal_price", "subtotal">>,
     tax_amount |-> <<"total_tax", "tax">>,
     order_date |-> <<"created_at", "date_created", "created">>]
WooCommerceAliases ==
    [order_date |-> <<"date_created", "created_at">>,
     currency |-> <<"currency", "currency_code">>,
     total_amount |-> <<"total", "total_price">>,
     tax_amount |-> <<"total_tax", "tax">>,
     shipping_amount |-> <<"shipping_total", "shipping">>]

\* C23: each canonical field of a normalized order is the value of the
\* first alias, in the field's alias order, that is present and non-null in
\* the raw item; a present 0 or empty text wins over later aliases (order
\* total: total_price, then total, then current_total_price.amount)
C23_FirstPresentAliasWins ==
    pc \in {"files", "transforms"} =>
        \A i \in 1..Len(out.orders) :
            LET o == out.orders[i]
                it == o.raw_payload.m
            IN  /\ OnlyFileIs("shopify") =>
                    /\ o.total_amount = FirstPresentTotal(it)
                    /\ \A f \in DOMAIN ShopifyAliases : o[f] = FirstPresent(it, ShopifyAliases[f])
                /\ OnlyFileIs("woocommerce") =>
                    \A f \in DOMAIN WooCommerceAliases :
                        o[f] = FirstPresent(it, WooCommerceAliases[f])

\* what does hold: the first present alias wins whenever its value is
\* truthy; a 0, an empty text or an empty object is passed over like a null
C23_FirstTruthyAliasWins ==
    pc \in {"files", "transforms"} =>
        \A i \in 1..Len(out.orders) :
            LET o == out.orders[i]
                it == o.raw_payload.m
            IN  /\ OnlyFileIs("shopify") =>
                    /\ truthy(FirstPresentTotal(it)) => o.total_amount = FirstPresentTotal(it)
                    /\ \A f \in DOMAIN ShopifyAliases :
                           truthy(FirstPresent(it, ShopifyAliases[f]))
                               => o[f] = FirstPresent(it, ShopifyAliases[f])
                /\ OnlyFileIs("woocommerce") =>
                    \A f \in DOMAIN WooCommerceAliases :
                        truthy(FirstPresent(it, WooCommerceAliases[f]))
                            => o[f] = FirstPresent(it, WooCommerceAliases[f])

\* the first truthy value of a list, and the last value when none is
RECURSIVE FirstTruthy(_)
FirstTruthy(values) ==
    IF Len(values) = 1 \/ truthy(Head(values)) THEN Head(values) ELSE FirstTruthy(Tail(values))

Get(it, key) == IF key \in DOMAIN it THEN it[key] ELSE PyNone
NestedGet(it, key, inner) ==
    IF Get(it, key) # PyNone /\ Get(it, key).k = "map" THEN Get(Get(it, key).m, inner) ELSE PyNone
Prefixed(prefix, c) == IF c.k = "str" THEN Str(prefix \o c.s) ELSE c
GuestOf(o) ==
    Str(<<"g", "u", "e", "s", "t", "_">>
        \o (IF o.order_id.k = "num" THEN NatText(o.order_id.n) ELSE o.order_id.s))

\* the chain as the claim has it: the item's customer_id before the id of
\* the customer object
ExplicitFirst(it) ==
    FirstTruthy(<<Get(it, "customer_id"), NestedGet(it, "customer", "id"),
                  Prefixed(<<"e", "m", "a", "i", "l", ":">>, Get(it, "email"))>>)
\* the chain with the id of the customer object first
NestedFirst(it) ==
    FirstTruthy(<<NestedGet(it, "customer", "id"), Get(it, "customer_id"),
                  Prefixed(<<"e", "m", "a", "i", "l", ":">>, Get(it, "email"))>>)

PriceOrZero(s) ==
    IF s.k = "map" /\ "price" \in DOMAIN s.m /\ s.m["price"].k \in {"num", "str"}
          /\ float_of(s.m["price"]) # NA
    THEN float_of(s.m["price"])
    ELSE Whole(0)
RECURSIVE SumOfPrices(_)
SumOfPrices(lines) ==
    IF lines = <<>> THEN Whole(0) ELSE RAdd(PriceOrZero(Head(lines)), SumOfPrices(Tail(lines)))
HasShippingLines(it) ==
    "shipping_lines" \in DOMAIN it /\ it["shipping_lines"].k = "list" /\ it["shipping_lines"].l # <<>>

\* C25: the shipping_amount of an order with a non-empty sequence of
\* shipping lines is the sum of the lines' prices, an absent or unparseable
\* price counting as 0 (one bad line does not discard the others, a sum of
\* 0 stays 0); the flat shipping-total field is used only without lines
C25_ShippingLinesSummed ==
    pc \in {"files", "transforms"} /\ OnlyFileIs("shopify") =>
        \A i \in 1..Len(out.orders) :
            LET o == out.orders[i]
                it == o.raw_payload.m
            IN  IF HasShippingLines(it)
                THEN o.shipping_amount = SumOfPrices(it["shipping_lines"].l)
                ELSE o.shipping_amount = FirstTruthy(<<Get(it, "shipping_total"), Get(it, "shipping")>>)

\* what does hold: when every line is an object whose price is absent or a
\* number other than 0, and there is such a number, the amount is their sum
C25_ShippingLinesSummedWhenParseable ==
    pc \in {"files", "transforms"} /\ OnlyFileIs("shopify") =>
        \A i \in 1..Len(out.orders) :
            LET o == out.orders[i]
                it == o.raw_payload.m
            IN  IF HasShippingLines(it)
                THEN (/\ \A n \in DOMAIN it["shipping_lines"].l :
                            LET s == it["shipping_lines"].l[n]
                            IN  s.k = "map" /\ ("price" \in DOMAIN s.m => PriceOrZero(s) # Whole(0))
                      /\ SumOfPrices(it["shipping_lines"].l) # Whole(0))
                     => o.shipping_amount = SumOfPrices(it["shipping_lines"].l)
                ELSE o.shipping_amount = FirstTruthy(<<Get(it, "shipping_total"), Get(it, "shipping")>>)

\* the customers of the batch none of whose orders has a date
NoValidDate(k) == \A i \in OrdersOf(k) : to_datetime_cell(df.rows[i]["order_date"]) = NA
ClvRowOf(k) == out.value[CHOOSE n \in 1..Len(out.value) : out.value[n].customer_id = k]

\* C26: a customer none of whose orders has a valid order_date gets a null
\* recency_days from calculate_clv, while clv, total_orders and
\* avg_order_value of that customer are still computed; the call does not
\* raise
C26_NullRecencyWithoutDate ==
    ({"customer_id", "order_total", "order_date"} \subseteq df.columns
     /\ pc \in {"returned", "raised"} /\ args.fn = "calculate_clv"
     /\ \E k \in CustomerKeys : NoValidDate(k)) =>
        /\ pc = "returned"
        /\ \A k \in CustomerKeys :
               NoValidDate(k) =>
                   /\ ClvRowOf(k).recency_days = NA
                   /\ ClvRowOf(k).clv = SumOver(OrdersOf(k))
                   /\ ClvRowOf(k).total_orders = Cardinality(OrdersOf(k))
                   /\ ClvRowOf(k).avg_order_value
                          = RDivInt(SumOver(OrdersOf(k)), Cardinality(OrdersOf(k)))

\* what does hold: the same for batches whose order dates carry no time zone
C26_NullRecencyWithoutDateNaive ==
    df.date_tz = "naive" => C26_NullRecencyWithoutDate

(***************************************************************************)
(* retry_rate_limit  (src/ingest.py 48-127)                                *)
(***************************************************************************)
\* status codes a wrapped request may come back with
Statuses == {200, 202, 401, 429, 500}
default_status_forcelist == {429, 500, 502, 503, 504}

\* the Retry-After header of a response: absent, a number of seconds, or a
\* text neither int() nor float() reads
RetryAfterHeaders == {"absent", "seconds", "date"}

\* resp.raise_for_status(): HTTPError for a client or server error status
raise_for_status_raises(status) == 400 <= status /\ status < 600

\* status_code in (status_forcelist or [])
in_forcelist(status, status_forcelist) ==
    status_forcelist.some /\ status \in status_forcelist.v

\* one more failed attempt: has the budget run out?
exhausted(attempts, max_retries) == attempts > max_retries

\* one turn of "while True" begins with the call of the wrapped function
Turn(result, sleep, counted) ==
    /\ pc = "call"
    /\ out.calls < MaxCalls
    /\ out' = [calls |-> out.calls + 1,
               attempts |-> IF counted THEN out.attempts + 1 ELSE out.attempts,
               sleep |-> sleep,
               result |-> result]
    /\ pc' = IF result.kind = "pending" THEN "call" ELSE result.kind
    /\ UNCHANGED <<df, args>>

Pending == [kind |-> "pending"]
Backoff(attempts) == [kind |-> "backoff", exponent |-> attempts]

\* func raises requests.RequestException
RequestRaises ==
    Turn(IF exhausted(out.attempts + 1, args.max_retries)
         THEN [kind |-> "raised", exc |-> "RequestException"] ELSE Pending,
         IF exhausted(out.attempts + 1, args.max_retries) THEN out.sleep
         ELSE Backoff(out.attempts + 1),
         TRUE)

\* func raises anything else: the wrapper does not catch it
RequestRaisesOther ==
    Turn([kind |-> "raised", exc |-> "Exception"], out.sleep, FALSE)

\* func returns None
RequestReturnsNone ==
    Turn(IF exhausted(out.attempts + 1, args.max_retries)
         THEN [kind |-> "raised", exc |-> "RuntimeError"] ELSE Pending,
         IF exhausted(out.attempts + 1, args.max_retries) THEN out.sleep
         ELSE Backoff(out.attempts + 1),
         TRUE)

\* func returns a response whose status is in the retry list
RequestReturnsRetryStatus ==
    \E status \in Statuses, header \in RetryAfterHeaders :
        /\ in_forcelist(status, args.status_forcelist)
        /\ Turn(IF exhausted(out.attempts + 1, args.max_retries) /\ raise_for_status_raises(status)
                THEN [kind |-> "raised", exc |-> "HTTPError"]
                ELSE IF header = "date" THEN [kind |-> "raised", exc |-> "ValueError"]
                ELSE Pending,
                IF exhausted(out.attempts + 1, args.max_retries) /\ raise_for_status_raises(status)
                THEN out.sleep
                ELSE IF header = "date" THEN out.sleep
                ELSE IF header = "seconds" THEN [kind |-> "retry_after"]
                ELSE Backoff(out.attempts + 1),
                TRUE)

\* func returns a response with any other status: the wrapper returns it
RequestReturnsOtherStatus ==
    \E status \in Statuses :
        /\ ~in_forcelist(status, args.status_forcelist)
        /\ Turn([kind |-> "returned", status |-> status], out.sleep, FALSE)

\* the retry lists a caller may configure: the default, None, none at all,
\* one that polls on 202 Accepted
StatusForcelists ==
    {Some(default_status_forcelist), None, Some({}), Some({202, 429})}

InitRetry ==
    \E max_retries \in 0..MaxRetries, status_forcelist \in StatusForcelists :
        /\ pc = "call"
        /\ df = <<>>
        /\ args = [max_retries |-> max_retries, status_forcelist |-> status_forcelist]
        /\ out = [calls |-> 0, attempts |-> 0, sleep |-> [kind |-> "none"], result |-> Pending]

NextRetry ==
    \/ RequestRaises \/ RequestRaisesOther \/ RequestReturnsNone
    \/ RequestReturnsRetryStatus \/ RequestReturnsOtherStatus

SpecRetry == InitRetry /\ [][NextRetry]_vars

\* C27: whatever the outcomes of the wrapped request and whatever the retry
\* list, the wrapped function is invoked at most max_retries + 1 times, and
\* the wrapper then returns a response whose status is not in the retry
\* list, or raises
C27_AtMostMaxRetriesPlusOneCalls ==
    pc \in {"call", "returned", "raised"} =>
        /\ out.calls <= args.max_retries + 1
        /\ out.calls = args.max_retries + 1 => pc # "call"
        /\ pc = "returned" => ~(args.status_forcelist.some
                                /\ out.result.status \in args.status_forcelist.v)

\* what does hold: the same when every status of the retry list is a client
\* or server error (400 to 599), as in the default list
C27_AtMostMaxRetriesPlusOneCallsErrorStatuses ==
    (args.status_forcelist.some => \A s \in args.status_forcelist.v : 400 <= s /\ s < 600)
        => C27_AtMostMaxRetriesPlusOneCalls

\* what a file adds when a file that raises adds nothing
Contribution(file) == IF process_file(file).raised THEN Nothing ELSE process_file(file)
RECURSIVE Contributions(_, _)
Contributions(files, list) ==
    IF files = <<>> THEN <<>>
    ELSE Contribution(Head(files))[list] \o Contributions(Tail(files), list)

\* C28: a staged file is processed all or nothing: when parsing any of its
\* items raises, the file adds no order, customer or transaction record to
\* the lists that go on to the transforms and the loader, and the other
\* staged files are still processed
C28_FileAllOrNothing ==
    pc = "transforms" =>
        /\ out.next = Len(args.files) + 1
        /\ out.orders = Contributions(args.files, "orders")
        /\ out.customers = Contributions(args.files, "customers")
        /\ out.transactions = Contributions(args.files, "transactions")

\* what does hold: Shopify and Stripe files are all or nothing, and a file
\* that raises never stops the files after it
C28_ParsedFileAllOrNothing ==
    (\A i \in 1..Len(args.files) : source_of(args.files[i].name) \in {"shopify", "stripe", "none"})
        => C28_FileAllOrNothing
(***************************************************************************)
(* run_transform from the staged files to the loader                       *)
(* (src/dags/etl_pipeline.py 217-323)                                      *)
(***************************************************************************)
\* pd.DataFrame(orders) ... to_dict(orient="records") on one column: a
\* column of numbers and None becomes a float column, its None NaN; any
\* other column keeps its objects.  Numbers keep their value.
frame_column(values) ==
    IF /\ \E i \in 1..Len(values) : values[i].k = "num"
       /\ \A i \in 1..Len(values) : values[i].k = "num" \/ values[i] = PyNone
    THEN [i \in 1..Len(values) |-> IF values[i] = PyNone THEN NA ELSE values[i]]
    ELSE values

\* the order records after lines 293-305, in the columns the loader and the
\* customer match read: the stages add columns (order_total, fraud_score,
\* fraud_flag, validation_issues), drop no row and leave customer_id and
\* order_id as the frame holds them
to_dict_records(orders) ==
    LET customer_ids == frame_column([i \in 1..Len(orders) |-> orders[i].customer_id])
        order_ids == frame_column([i \in 1..Len(orders) |-> orders[i].order_id])
    IN  [i \in 1..Len(orders) |->
            [orders[i] EXCEPT !.customer_id = customer_ids[i], !.order_id = order_ids[i]]]

\* lines 292-314 of a run whose stages do not raise: the lists go to the
\* loader, the orders through the frame
RunTransforms ==
    /\ pc = "transforms"
    /\ pc' = "upsert_customers"
    /\ args' = [customers |-> out.customers, orders |-> to_dict_records(out.orders),
                transactions |-> out.transactions, failed |-> out.failed]
    /\ df' = EmptyWarehouse
    /\ out' = [raised |-> FALSE, pass |-> 1, first |-> EmptyWarehouse, upserted |-> <<>>]

NextTransformRun ==
    \/ ProcessStagedFile
    \/ FilesDone
    \/ RunTransforms
    \/ LoadCustomers
    \/ LoadOrders
    \/ LoadTransactions

SpecTransformRun == InitNormalize /\ [][NextTransformRun]_vars

OrdersUpserted == pc \in LoadPositions /\ \E i \in 1..Len(out.upserted) : out.upserted[i] = "orders_fact"
CustomersFirst ==
    OrdersUpserted /\ args.customers # <<>> => out.upserted[1] = "customers_dim"
HasCustomerRecord(o) ==
    \E j \in 1..Len(args.customers) : args.customers[j].customer_id = o.customer_id

\* C29: in every run of run_transform customers are upserted before
\* orders, and every order upserted with a non-null customer_id has a
\* customer record with the same customer_id in the customer batch upserted
\* in that run
C29_OrdersHaveCustomerRecords ==
    /\ CustomersFirst
    /\ OrdersUpserted =>
           \A i \in 1..Len(args.orders) :
               ~isna(args.orders[i].customer_id) => HasCustomerRecord(args.orders[i])

\* what does hold: customers go first, and when no staged file raised,
\* every upserted order whose customer_id is truthy has its customer record
C29_TruthyCustomerIdsHaveRecords ==
    /\ CustomersFirst
    /\ OrdersUpserted /\ args.failed = {} =>
           \A i \in 1..Len(args.orders) :
               ~isna(args.orders[i].customer_id) /\ truthy(args.orders[i].customer_id)
                   => HasCustomerRecord(args.orders[i])
(***************************************************************************)
(* merge_metadata  (src/transform.py 218-237)                              *)
(***************************************************************************)
\* DataFrame.add_prefix(prefix): every column label gets the prefix
add_prefix(b, prefix) ==
    LET labels == {prefix \o c : c \in b.columns}
        old(l) == CHOOSE c \in b.columns : prefix \o c = l
    IN  [columns |-> labels,
         rows |-> [i \in 1..NRows(b) |-> [l \in labels |-> b.rows[i][old(l)]]]]

\* DataFrame.rename(columns={old: new}): a label the frame lacks is skipped
rename(b, old, new) ==
    LET labels == {IF c = old THEN new ELSE c : c \in b.columns}
        was(l) == IF l = new /\ old \in b.columns THEN old ELSE l
    IN  [columns |-> labels,
         rows |-> [i \in 1..NRows(b) |-> [l \in labels |-> b.rows[i][was(l)]]]]

\* the join keys of two rows match: equal values, and a null matches a null
same_key(x, y) == x = y \/ (isna(x) /\ isna(y))

\* the rows a left row gives in a left join: one per matching right row in
\* the right frame's order, or one with null right columns when none matches
joined_rows(row, right, on) ==
    LET others == right.columns \ {on}
        hits == SelectSeq(right.rows, LAMBDA r : same_key(r[on], row[on]))
        with(r) == [c \in DOMAIN row \cup others |-> IF c \in DOMAIN row THEN row[c] ELSE r[c]]
    IN  IF hits = <<>>
        THEN <<[c \in DOMAIN row \cup others |-> IF c \in DOMAIN row THEN row[c] ELSE NA]>>
        ELSE [j \in 1..Len(hits) |-> with(hits[j])]

RECURSIVE left_join(_, _, _)
left_join(rows, right, on) ==
    IF rows = <<>> THEN <<>>
    ELSE joined_rows(Head(rows), right, on) \o left_join(Tail(rows), right, on)

\* df.merge(right, on=on, how="left"); the key has to be a column of both
\* frames.  The frames below share no other label.
merge(left, right, on) ==
    IF on \notin right.columns THEN Raised("KeyError")
    ELSE [raised |-> FALSE,
          value |-> [columns |-> left.columns \cup right.columns,
                     rows |-> left_join(left.rows, right, on)]]

\* lines 224-229 and 231-235: one metadata frame joined to the orders
merge_one(b, metadata, prefix, on) ==
    IF metadata # None /\ on \in b.columns
    THEN merge(b, rename(add_prefix(metadata.v, prefix), prefix \o on, on), on)
    ELSE [raised |-> FALSE, value |-> b]

merge_metadata(b, a) ==
    LET products == merge_one(b, a.df_products, "product_", a.on_product)
    IN  IF products.raised THEN products
        ELSE merge_one(products.value, a.df_customers, "customer_", a.on_customer)

Product1 == Str(<<"p", "1">>)
Product2 == Str(<<"p", "2">>)
\* order batches with and without a product_id column
MergeOrders(n) ==
    {[columns |-> {"order_id", "product_id", "customer_id"},
      rows |-> [i \in 1..Len(rs) |-> [order_id |-> OrderId(i), product_id |-> rs[i][1],
                                      customer_id |-> rs[i][2]]]] :
        rs \in SeqsUpTo({Product1, Product2, PyNone} \X {Customer1, Customer2, PyNone}, n)}
    \cup {[columns |-> {"order_id", "customer_id"},
           rows |-> [i \in 1..Len(rs) |-> [order_id |-> OrderId(i), customer_id |-> rs[i]]]] :
             rs \in SeqsUpTo({Customer1, Customer2, PyNone}, n)}

\* metadata: no frame, frames whose keys may repeat or match no order, and
\* a frame without the key column
ProductMetadata(n) ==
    {None}
    \cup {Some([columns |-> {"product_id", "name"}, rows |-> rs]) :
             rs \in SeqsUpTo([product_id : {Product1, Product2},
                              name : {Str(<<"A">>), Str(<<"B">>)}], n)}
    \cup {Some([columns |-> {"name"}, rows |-> <<[name |-> Str(<<"A">>)]>>])}
CustomerMetadata(n) ==
    {None}
    \cup {Some([columns |-> {"customer_id", "email"}, rows |-> rs]) :
             rs \in SeqsUpTo([customer_id : {Customer1, Customer2, PyNone},
                              email : {OkEmail}], n)}

InitMerge ==
    \E orders \in MergeOrders(MaxMergeRows), products \in ProductMetadata(MaxMergeRows),
       customers \in CustomerMetadata(MaxMergeRows) :
        /\ pc = "merge_metadata"
        /\ df = orders
        /\ args = [fn |-> "merge_metadata", df_products |-> products, df_customers |-> customers,
                   on_product |-> "product_id", on_customer |-> "customer_id"]
        /\ out = NoResult

CallMergeMetadata ==
    /\ pc = "merge_metadata"
    /\ out' = merge_metadata(df, args)
    /\ pc' = IF out'.raised THEN "raised" ELSE "returned"
    /\ UNCHANGED <<df, args>>

NextMerge == CallMergeMetadata

SpecMerge == InitMerge /\ [][NextMerge]_vars

\* the metadata frame that takes part in the join on a key, if any
Joined(metadata, on) == metadata # None /\ on \in df.columns
Matches(metadata, on, row) ==
    {j \in 1..NRows(metadata.v) : same_key(metadata.v.rows[j][on], row[on])}
MetadataNull(metadata, prefix, on, i) ==
    Joined(metadata, on) /\ Matches(metadata, on, df.rows[i]) = {} =>
        \A c \in metadata.v.columns \ {on} : out.value.rows[i][prefix \o c] = NA

\* C30: merge_metadata is a left join that keeps the order batch's rows:
\* for every order batch and every product and customer metadata batch,
\* repeated keys and keys matching no order included, the result has one
\* row per input order row, in input order, and an order no metadata
\* matches keeps null metadata columns
C30_OneRowPerOrder ==
    pc \in {"returned", "raised"} =>
        /\ pc = "returned"
        /\ NRows(out.value) = NRows(df)
        /\ \A i \in 1..NRows(df) :
               /\ \A c \in df.columns : out.value.rows[i][c] = df.rows[i][c]
               /\ MetadataNull(args.df_products, "product_", args.on_product, i)
               /\ MetadataNull(args.df_customers, "customer_", args.on_customer, i)

\* what does hold: metadata that has the key column and no key twice
KeyedOnce(metadata, on) ==
    Joined(metadata, on) =>
        /\ on \in metadata.v.columns
        /\ \A i, j \in 1..NRows(metadata.v) :
               same_key(metadata.v.rows[i][on], metadata.v.rows[j][on]) => i = j
C30_OneRowPerOrderDistinctKeys ==
    KeyedOnce(args.df_products, args.on_product) /\ KeyedOnce(args.df_customers, args.on_customer)
        => C30_OneRowPerOrder

====
